---- MODULE Spec2Model ----
(***************************************************************************)
(* Model of the Qeasy listing front end: the listing run (runListing) of   *)
(* App.tsx with its three external calls, the API wrappers of api/qeasy.ts *)
(* and the result aggregation of ListingResultInline.                      *)
(*                                                                         *)
(* Strings that the code searches or edits (product names, titles, deny    *)
(* words) are sequences of one-character strings; identifiers that the     *)
(* code only compares (ASINs, status tags, message texts) are atoms.       *)
(* An optional number is <<>> (undefined) or <<n>>.                        *)
(***************************************************************************)
EXTENDS Integers, Sequences, FiniteSets, TLC

VARIABLES
    settings,        \* useState<SettingsState>
    products,        \* useState<Product[]>
    selected,        \* useState<Set<number>>
    loading,         \* useState(false)
    listingResults,  \* useState<ListingResultItem[] | null>
    pc,              \* position of the runListing invocation
    rsettings,       \* the settings value the running closure reads
    targets,         \* runListing local
    amazonDone,      \* fetchAmazonBulk of the run has resolved
    existDone,       \* checkQoo10Existing of the run has resolved
    amazonInfos,     \* runListing local (resolved value)
    existingAsins,   \* runListing local (resolved value)
    existFailed,     \* the existing-listing call of the run failed in transport
    amazonFailed,    \* the enrichment call of the run failed in transport
    results,         \* runListing local
    payloads,        \* runListing local
    created,         \* runListing local (resolved value of the creation call)
    createCalls,     \* number of createQoo10Listings calls issued by the run
    evalReads,       \* which reads had resolved when the rule loop ran
    caught,          \* the catch block of the run has run
    view,            \* what ListingResultInline rendered last
    apiCall,         \* the last wrapper call of api/qeasy.ts and its return
    applied,         \* a pure function applied on its own: input and value
    syncPending,     \* the calls of the mount effects still in flight ("settings", "items")
    rerendered,      \* the component has re-rendered since the run set loading
    second           \* position of a further runListing invocation

vars == <<settings, products, selected, loading, listingResults, pc, rsettings,
          targets, amazonDone, existDone, amazonInfos, existingAsins,
          existFailed, amazonFailed, results, payloads, created, createCalls,
          evalReads, caught, view, apiCall, applied, syncPending, rerendered,
          second>>

runVars == <<pc, rsettings, targets, amazonDone, existDone, amazonInfos,
             existingAsins, existFailed, amazonFailed, results, payloads,
             created, createCalls, evalReads, caught>>

(***************************************************************************)
(* Bounds                                                                  *)
(***************************************************************************)
\* longest item list a listing-creation response carries
MaxCreated == 2
\* longest outcome list handed to the aggregator on its own
MaxOutcomes == 3
\* longest rule list handed to applyRule on its own
MaxRules == 2
\* most fragments a title handed to the category functions is made of
MaxTitleParts == 2
\* most cells a text handed to parseAsinCsv is made of
MaxCells == 4
\* the CSV import is followed as long as the ids it hands out stay within
MaxProductId == 4

(***************************************************************************)
(* Strings                                                                 *)
(***************************************************************************)
\* String.prototype.includes
Includes(s, w) ==
    \E i \in 0..(Len(s) - Len(w)) : SubSeq(s, i + 1, i + Len(w)) = w

\* t.split(w).join("") for a non-empty w: every occurrence, left to right
RECURSIVE RemoveAll(_, _)
RemoveAll(t, w) ==
    IF Len(t) < Len(w) THEN t
    ELSE IF SubSeq(t, 1, Len(w)) = w
         THEN RemoveAll(SubSeq(t, Len(w) + 1, Len(t)), w)
         ELSE <<Head(t)>> \o RemoveAll(Tail(t), w)

\* replace(/\s+/g, " ")
RECURSIVE CollapseWs(_)
CollapseWs(t) ==
    IF t = <<>> THEN <<>>
    ELSE IF Head(t) = " "
         THEN IF Len(t) > 1 /\ t[2] = " "
              THEN CollapseWs(Tail(t))
              ELSE <<" ">> \o CollapseWs(Tail(t))
         ELSE <<Head(t)>> \o CollapseWs(Tail(t))

\* the white space String.prototype.trim removes, as far as it occurs here:
\* space, tab, carriage return, line feed and the byte order mark U+FEFF
WhiteSpace == {" ", "\t", "\r", "\n", "uFEFF"}

\* String.prototype.trim
RECURSIVE Trim(_)
Trim(t) ==
    IF t = <<>> THEN <<>>
    ELSE IF Head(t) \in WhiteSpace THEN Trim(Tail(t))
    ELSE IF t[Len(t)] \in WhiteSpace THEN Trim(SubSeq(t, 1, Len(t) - 1))
    ELSE t

RECURSIVE StripLoop(_, _)
StripLoop(t, words) ==
    IF words = <<>> THEN t
    ELSE IF Head(words) = <<>> THEN StripLoop(t, Tail(words))
    ELSE StripLoop(RemoveAll(t, Head(words)), Tail(words))

stripWords(title, words) == Trim(CollapseWs(StripLoop(title, words)))

(***************************************************************************)
(* Price rules                                                             *)
(***************************************************************************)
\* Math.round of the rational n/d (d > 0): floor(n/d + 1/2)
Round(n, d) == (2 * n + d) \div (2 * d)

Max(a, b) == IF a >= b THEN a ELSE b

\* the band of a rule taken without its upper end
RuleMatches_OpenUpper(rr, price) ==
    IF rr.max # <<>> THEN price >= rr.min /\ price < rr.max[1]
    ELSE price >= rr.min

\* rr.max != null ? price >= rr.min && price <= rr.max : price >= rr.min
RuleMatches(rr, price) ==
    IF rr.max # <<>> THEN price >= rr.min /\ price <= rr.max[1]
    ELSE price >= rr.min

\* rules.find: the first matching rule, <<>> when there is none
RECURSIVE FindRule(_, _)
FindRule(rules, price) ==
    IF rules = <<>> THEN <<>>
    ELSE IF RuleMatches(Head(rules), price) THEN <<Head(rules)>>
    ELSE FindRule(Tail(rules), price)

\* applyRule without the additive term of the rule
applyRule_NoPlus(price, rules) ==
    IF price = <<>> \/ price[1] = 0 \/ price[1] <= 0 THEN 0
    ELSE LET r == FindRule(rules, price[1])
             result == IF r # <<>>
                       THEN Round(price[1] * r[1].mulNum, r[1].mulDen)
                       ELSE price[1]
         IN Max(1, result)

\* price is <<>> (undefined) or <<n>>; multiply is the rational mulNum/mulDen
applyRule(price, rules) ==
    IF price = <<>> \/ price[1] = 0 \/ price[1] <= 0 THEN 0
    ELSE LET r == FindRule(rules, price[1])
             result == IF r # <<>>
                       THEN Round(price[1] * r[1].mulNum + r[1].plus * r[1].mulDen,
                                  r[1].mulDen)
                       ELSE price[1]
         IN Max(1, result)

(***************************************************************************)
(* Characters and number strings                                           *)
(***************************************************************************)
\* A character outside ASCII is written "u" followed by its code point in
\* hexadecimal ("u30B5" is the katakana SA), so that two strings share a
\* character exactly when the source strings do.
UpperLetters ==
    <<"A","B","C","D","E","F","G","H","I","J","K","L","M",
      "N","O","P","Q","R","S","T","U","V","W","X","Y","Z">>

LowerLetters ==
    <<"a","b","c","d","e","f","g","h","i","j","k","l","m",
      "n","o","p","q","r","s","t","u","v","w","x","y","z">>

DigitChars == <<"0","1","2","3","4","5","6","7","8","9">>

IndexOf(list, x) ==
    IF \E i \in 1..Len(list) : list[i] = x
    THEN CHOOSE i \in 1..Len(list) : list[i] = x /\ \A j \in 1..(i - 1) : list[j] # x
    ELSE 0

\* String.prototype.toLowerCase (the characters used have no other case pairs)
toLowerCase(s) ==
    [i \in 1..Len(s) |->
        IF IndexOf(UpperLetters, s[i]) # 0 THEN LowerLetters[IndexOf(UpperLetters, s[i])]
        ELSE s[i]]

\* String.prototype.toUpperCase
toUpperCase(s) ==
    [i \in 1..Len(s) |->
        IF IndexOf(LowerLetters, s[i]) # 0 THEN UpperLetters[IndexOf(LowerLetters, s[i])]
        ELSE s[i]]

\* Number(str) of a string of decimal digits
RECURSIVE Number(_)
Number(str) ==
    IF str = <<>> THEN 0
    ELSE 10 * Number(SubSeq(str, 1, Len(str) - 1)) + (IndexOf(DigitChars, str[Len(str)]) - 1)

(***************************************************************************)
(* qoo10Category.ts: the automatic classifier                              *)
(***************************************************************************)
SUPPLEMENT_KEYWORDS ==
    << <<"u30B5","u30D7","u30EA","u30E1","u30F3","u30C8">>,
       <<"u30B5","u30D7","u30EA">>,
       <<"u5065","u5EB7","u98DF","u54C1">>,
       <<"u6A5F","u80FD","u6027","u8868","u793A","u98DF","u54C1">>,
       <<"u30D7","u30ED","u30C6","u30A4","u30F3">>,
       <<"u30DB","u30A8","u30A4","u30D7","u30ED","u30C6","u30A4","u30F3">>,
       <<"u30BD","u30A4","u30D7","u30ED","u30C6","u30A4","u30F3">>,
       <<"u9752","u6C41">>,
       <<"u9175","u7D20">>,
       <<"u4E73","u9178","u83CC">>,
       <<"u30AA","u30E1","u30AC","3">>,
       <<"E","P","A">>,
       <<"D","H","A">>,
       <<"u30C0","u30A4","u30A8","u30C3","u30C8","u30B5","u30D7","u30EA">>,
       <<"u7F8E","u5BB9","u30B5","u30D7","u30EA">> >>

BEAUTY_APPLIANCE_KEYWORDS ==
    << <<"u30C9","u30E9","u30A4","u30E4","u30FC">>,
       <<"u30D8","u30A2","u30C9","u30E9","u30A4","u30E4","u30FC">>,
       <<"u30D8","u30A2","u30FC","u30C9","u30E9","u30A4","u30E4","u30FC">>,
       <<"u30D8","u30A2","u30A2","u30A4","u30ED","u30F3">>,
       <<"u30B9","u30C8","u30EC","u30FC","u30C8","u30A2","u30A4","u30ED","u30F3">>,
       <<"u30AB","u30FC","u30EB","u30A2","u30A4","u30ED","u30F3">>,
       <<"2","W","A","Y","u30A2","u30A4","u30ED","u30F3">>,
       <<"2","W","A","Y"," ","u30D8","u30A2","u30A2","u30A4","u30ED","u30F3">>,
       <<"u30B3","u30C6">>,
       <<"u7F8E","u9854","u5668">>,
       <<"u30D5","u30A7","u30A4","u30B9","u30B9","u30C1","u30FC","u30DE","u30FC">>,
       <<"u30A4","u30AA","u30F3","u30B9","u30C1","u30FC","u30DE","u30FC">>,
       <<"u30B9","u30C1","u30FC","u30DE","u30FC">> >>

ELECTRIC_HINTS ==
    << <<"u96FB","u52D5">>,
       <<"u96FB","u6C17">>,
       <<"u5145","u96FB","u5F0F">>,
       <<"u30B3","u30FC","u30C9","u30EC","u30B9">>,
       <<"I","P","X">>,
       <<"u9632","u6C34">> >>

RAZOR_KEYWORDS ==
    << <<"u30AB","u30DF","u30BD","u30EA">>,
       <<"u9AED","u5243","u308A">>,
       <<"u3072","u3052","u305D","u308A">>,
       <<"u30D2","u30B2","u30BD","u30EA">>,
       <<"u30B7","u30A7","u30FC","u30D0","u30FC">>,
       <<"u30B7","u30A7","u30A4","u30D0","u30FC">> >>

DAILY_RAZOR_HINTS ==
    << <<"u66FF","u5203">>,
       <<"u66FF","u3048","u5203">>,
       <<"u30DB","u30EB","u30C0","u30FC","(","u5203","u4ED8","u304D">>,
       <<"u5243","u5200">> >>

BEAUTY_RULES ==
    << [ code |-> <<"1","2","0","0","0","0","0","1","7">>,
         keywords |-> << <<"u65E5","u713C","u3051","u6B62","u3081">>,
                       <<"U","V","u30B1","u30A2">>,
                       <<"U","V","u30AB","u30C3","u30C8">>,
                       <<"u30B5","u30F3","u30B9","u30AF","u30EA","u30FC","u30F3">>,
                       <<"u30B5","u30F3","u30D6","u30ED","u30C3","u30AF">>,
                       <<"u30B5","u30F3","u30D7","u30ED","u30C6","u30AF","u30BF","u30FC">>,
                       <<"u30B5","u30F3","u30AF","u30C3","u30B7","u30E7","u30F3">>,
                       <<"U","V","u30AF","u30EA","u30FC","u30E0">>,
                       <<"U","V","u30DF","u30EB","u30AF">>,
                       <<"U","V","u30B8","u30A7","u30EB">> >> ],
       [ code |-> <<"1","2","0","0","0","0","0","1","3">>,
         keywords |-> << <<"u30D5","u30A1","u30F3","u30C7","u30FC","u30B7","u30E7","u30F3">>,
                       <<"u30AF","u30C3","u30B7","u30E7","u30F3","u30D5","u30A1","u30F3","u30C7">>,
                       <<"u30AF","u30C3","u30B7","u30E7","u30F3","u30D5","u30A1","u30F3","u30C7","u30FC","u30B7","u30E7","u30F3">>,
                       <<"u30EA","u30AD","u30C3","u30C9","u30D5","u30A1","u30F3","u30C7">>,
                       <<"u30D1","u30A6","u30C0","u30FC","u30D5","u30A1","u30F3","u30C7">>,
                       <<"B","B","u30AF","u30EA","u30FC","u30E0">>,
                       <<"C","C","u30AF","u30EA","u30FC","u30E0">>,
                       <<"u5316","u7CA7","u4E0B","u5730">>,
                       <<"u30E1","u30A4","u30AF","u4E0B","u5730">>,
                       <<"u30D7","u30E9","u30A4","u30DE","u30FC">>,
                       <<"u30B3","u30F3","u30B7","u30FC","u30E9","u30FC">>,
                       <<"u30D5","u30A7","u30A4","u30B9","u30D1","u30A6","u30C0","u30FC">>,
                       <<"u30EB","u30FC","u30B9","u30D1","u30A6","u30C0","u30FC">>,
                       <<"u30D7","u30EC","u30B9","u30C8","u30D1","u30A6","u30C0","u30FC">>,
                       <<"u30C8","u30FC","u30F3","u30A2","u30C3","u30D7","u30D9","u30FC","u30B9">>,
                       <<"u30C8","u30FC","u30F3","u30A2","u30C3","u30D7","u30AF","u30EA","u30FC","u30E0">> >> ],
       [ code |-> <<"1","2","0","0","0","0","0","1","4">>,
         keywords |-> << <<"u30A2","u30A4","u30B7","u30E3","u30C9","u30A6">>,
                       <<"u30A2","u30A4","u30B0","u30ED","u30B9">>,
                       <<"u30A2","u30A4","u30E9","u30A4","u30CA","u30FC">>,
                       <<"u30B8","u30A7","u30EB","u30E9","u30A4","u30CA","u30FC">>,
                       <<"u30DA","u30F3","u30B7","u30EB","u30E9","u30A4","u30CA","u30FC">>,
                       <<"u30DE","u30B9","u30AB","u30E9">>,
                       <<"u30C1","u30FC","u30AF">>,
                       <<"u30D6","u30E9","u30C3","u30B7","u30E5">>,
                       <<"u30CF","u30A4","u30E9","u30A4","u30C8">>,
                       <<"u30B7","u30A7","u30FC","u30C7","u30A3","u30F3","u30B0">>,
                       <<"u30B3","u30F3","u30C8","u30A5","u30A2">>,
                       <<"u30EA","u30C3","u30D7">>,
                       <<"u53E3","u7D05">>,
                       <<"u30B0","u30ED","u30B9">>,
                       <<"u30C6","u30A3","u30F3","u30C8">>,
                       <<"u30EA","u30C3","u30D7","u30AA","u30A4","u30EB">>,
                       <<"u30EA","u30C3","u30D7","u30D0","u30FC","u30E0">>,
                       <<"u30A2","u30A4","u30D6","u30ED","u30A6">>,
                       <<"u7709","u30DE","u30B9","u30AB","u30E9">>,
                       <<"u30D6","u30ED","u30A6">> >> ],
       [ code |-> <<"1","2","0","0","0","0","0","2","0">>,
         keywords |-> << <<"u30B7","u30E3","u30F3","u30D7","u30FC">>,
                       <<"uFF7C","uFF6C","uFF9D","uFF8C","uFF9F","uFF70">>,
                       <<"u30B3","u30F3","u30C7","u30A3","u30B7","u30E7","u30CA","u30FC">>,
                       <<"u30C8","u30EA","u30FC","u30C8","u30E1","u30F3","u30C8">>,
                       <<"u30D8","u30A2","u30DE","u30B9","u30AF">>,
                       <<"u30D8","u30A2","u30D1","u30C3","u30AF">>,
                       <<"u30D8","u30A2","u30AA","u30A4","u30EB">>,
                       <<"u30D8","u30A2","u30DF","u30B9","u30C8">>,
                       <<"u30D8","u30A2","u30A8","u30C3","u30BB","u30F3","u30B9">>,
                       <<"u30D8","u30A2","u30B9","u30D7","u30EC","u30FC">>,
                       <<"u30D8","u30A2","u30EF","u30C3","u30AF","u30B9">>,
                       <<"u30B9","u30BF","u30A4","u30EA","u30F3","u30B0">>,
                       <<"u30B9","u30BF","u30A4","u30EA","u30F3","u30B0","u30B8","u30A7","u30EB">>,
                       <<"u80B2","u6BDB","u5264">>,
                       <<"u30B9","u30AB","u30EB","u30D7">>,
                       <<"u982D","u76AE","u30B1","u30A2">>,
                       <<"u30D8","u30A2","u30AB","u30E9","u30FC">>,
                       <<"u767D","u9AEA","u67D3","u3081">>,
                       <<"u30D8","u30CA">> >> ],
       [ code |-> <<"1","2","0","0","0","0","0","2","1">>,
         keywords |-> << <<"u30CD","u30A4","u30EB">>,
                       <<"u30DE","u30CB","u30AD","u30E5","u30A2">>,
                       <<"u30B8","u30A7","u30EB","u30CD","u30A4","u30EB">>,
                       <<"u30C8","u30C3","u30D7","u30B3","u30FC","u30C8">>,
                       <<"u30D9","u30FC","u30B9","u30B3","u30FC","u30C8">>,
                       <<"u30CD","u30A4","u30EB","u30DD","u30EA","u30C3","u30B7","u30E5">>,
                       <<"u30CD","u30A4","u30EB","u30AB","u30E9","u30FC">>,
                       <<"u30CD","u30A4","u30EB","u30AA","u30A4","u30EB">>,
                       <<"u30AD","u30E5","u30FC","u30C6","u30A3","u30AF","u30EB","u30AA","u30A4","u30EB">> >> ],
       [ code |-> <<"1","2","0","0","0","0","0","2","2">>,
         keywords |-> << <<"u9999","u6C34">>,
                       <<"u30D5","u30EC","u30B0","u30E9","u30F3","u30B9">>,
                       <<"u30AA","u30FC","u30C9","u30C8","u30EF","u30EC">>,
                       <<"u30AA","u30FC","u30C9","u30D1","u30EB","u30D5","u30A1","u30E0">>,
                       <<"u30AA","u30FC","u30C7","u30B3","u30ED","u30F3">>,
                       <<"u30DC","u30C7","u30A3","u30DF","u30B9","u30C8">>,
                       <<"u30D8","u30A2","u30DF","u30B9","u30C8">>,
                       <<"u30D1","u30EB","u30D5","u30A1","u30E0">> >> ],
       [ code |-> <<"1","2","0","0","0","0","0","1","8">>,
         keywords |-> << <<"u30DC","u30C7","u30A3","u30AF","u30EA","u30FC","u30E0">>,
                       <<"u30DC","u30C7","u30A3","u30DF","u30EB","u30AF">>,
                       <<"u30DC","u30C7","u30A3","u30ED","u30FC","u30B7","u30E7","u30F3">>,
                       <<"u30DC","u30C7","u30A3","u30B8","u30A7","u30EB">>,
                       <<"u30DC","u30C7","u30A3","u30AA","u30A4","u30EB">>,
                       <<"u30DC","u30C7","u30A3","u30BD","u30FC","u30D7">>,
                       <<"u30DC","u30C7","u30A3","u30A6","u30A9","u30C3","u30B7","u30E5">>,
                       <<"u30B7","u30E3","u30EF","u30FC","u30B8","u30A7","u30EB">>,
                       <<"u30CF","u30F3","u30C9","u30AF","u30EA","u30FC","u30E0">>,
                       <<"u30CF","u30F3","u30C9","u30B8","u30A7","u30EB">>,
                       <<"u30CF","u30F3","u30C9","u30ED","u30FC","u30B7","u30E7","u30F3">>,
                       <<"u30D5","u30C3","u30C8","u30AF","u30EA","u30FC","u30E0">>,
                       <<"u30D5","u30C3","u30C8","u30B1","u30A2">>,
                       <<"u30DC","u30C7","u30A3","u30B9","u30AF","u30E9","u30D6">>,
                       <<"u30DC","u30C7","u30A3","u30B9","u30AF","u30E9","u30C3","u30D7">>,
                       <<"u30D0","u30B9","u30BD","u30EB","u30C8">>,
                       <<"u5165","u6D74","u5264">>,
                       <<"u30D0","u30B9","u30DC","u30E0">>,
                       <<"u30C7","u30AA","u30C9","u30E9","u30F3","u30C8">>,
                       <<"u5236","u6C57">>,
                       <<"u30DC","u30C7","u30A3","u30D0","u30BF","u30FC">>,
                       <<"u30DC","u30C7","u30A3","u30DF","u30B9","u30C8">> >> ],
       [ code |-> <<"1","2","0","0","0","0","0","1","2">>,
         keywords |-> << <<"u5316","u7CA7","u6C34">>,
                       <<"u30ED","u30FC","u30B7","u30E7","u30F3">>,
                       <<"u30C8","u30CA","u30FC">>,
                       <<"u4E73","u6DB2">>,
                       <<"u30A8","u30DE","u30EB","u30B8","u30E7","u30F3">>,
                       <<"u7F8E","u5BB9","u6DB2">>,
                       <<"u30BB","u30E9","u30E0">>,
                       <<"u30A8","u30C3","u30BB","u30F3","u30B9">>,
                       <<"u30A2","u30F3","u30D7","u30EB">>,
                       <<"u30AF","u30EA","u30FC","u30E0">>,
                       <<"u30B8","u30A7","u30EB","u30AF","u30EA","u30FC","u30E0">>,
                       <<"u30B8","u30A7","u30EB">>,
                       <<"u30AA","u30FC","u30EB","u30A4","u30F3","u30EF","u30F3","u30B8","u30A7","u30EB">>,
                       <<"u30AA","u30FC","u30EB","u30A4","u30F3","u30EF","u30F3","u30B2","u30EB">>,
                       <<"u30AF","u30EC","u30F3","u30B8","u30F3","u30B0">>,
                       <<"u30AF","u30EC","u30F3","u30B8","u30F3","u30B0","u30AA","u30A4","u30EB">>,
                       <<"u30AF","u30EC","u30F3","u30B8","u30F3","u30B0","u30D0","u30FC","u30E0">>,
                       <<"u30AF","u30EC","u30F3","u30B8","u30F3","u30B0","u30B8","u30A7","u30EB">>,
                       <<"u30AF","u30EC","u30F3","u30B8","u30F3","u30B0","u30DF","u30EB","u30AF">>,
                       <<"u6D17","u9854">>,
                       <<"u6D17","u9854","u30D5","u30A9","u30FC","u30E0">>,
                       <<"u30D5","u30A9","u30FC","u30E0","u30AF","u30EC","u30F3","u30B6","u30FC">>,
                       <<"u30B7","u30FC","u30C8","u30DE","u30B9","u30AF">>,
                       <<"u30D5","u30A7","u30A4","u30B9","u30DE","u30B9","u30AF">>,
                       <<"u30DE","u30B9","u30AF">>,
                       <<"u30D1","u30C3","u30AF">>,
                       <<"u30B9","u30EA","u30FC","u30D4","u30F3","u30B0","u30DE","u30B9","u30AF">>,
                       <<"u30B9","u30EA","u30FC","u30D4","u30F3","u30B0","u30D1","u30C3","u30AF">>,
                       <<"u30D4","u30FC","u30EA","u30F3","u30B0">>,
                       <<"u30B9","u30AF","u30E9","u30D6">>,
                       <<"u89D2","u8CEA","u30B1","u30A2">>,
                       <<"C","I","C","A">>,
                       <<"u30B7","u30AB">>,
                       <<"u7F8E","u767D","u7F8E","u5BB9","u6DB2">>,
                       <<"u6BDB","u7A74","u30B1","u30A2">> >> ] >>

\* keywords.some((kw) => title.includes(kw))
SomeIncluded(keywords, title) == \E i \in 1..Len(keywords) : Includes(title, keywords[i])

isSupplement(title) == SomeIncluded(SUPPLEMENT_KEYWORDS, title)

isBeautyAppliance(title) ==
    IF SomeIncluded(BEAUTY_APPLIANCE_KEYWORDS, title) THEN TRUE
    ELSE IF SomeIncluded(RAZOR_KEYWORDS, title) /\ SomeIncluded(ELECTRIC_HINTS, title) THEN TRUE
    ELSE FALSE

isDailyRazor(title) ==
    IF ~SomeIncluded(RAZOR_KEYWORDS, title) THEN FALSE
    ELSE IF ~SomeIncluded(ELECTRIC_HINTS, title) THEN TRUE
    ELSE IF SomeIncluded(DAILY_RAZOR_HINTS, title) THEN TRUE
    ELSE FALSE

\* the main cascade with the razor rule placed before the supplement rule
getMainCategoryCode_RazorFirst(title) ==
    IF isBeautyAppliance(title) THEN <<"1","2","0","0","0","0","0","3","3">>
    ELSE IF isDailyRazor(title) THEN <<"1","0","0","0","0","0","0","1","8">>
    ELSE IF isSupplement(title) THEN <<"1","3","0","0","0","0">>
    ELSE <<"1","2","0","0","0","0">>

getMainCategoryCode(title) ==
    IF isSupplement(title) THEN <<"1","3","0","0","0","0">>
    ELSE IF isBeautyAppliance(title) THEN <<"1","2","0","0","0","0","0","3","3">>
    ELSE IF isDailyRazor(title) THEN <<"1","0","0","0","0","0","0","1","8">>
    ELSE <<"1","2","0","0","0","0">>

\* the sub-cascade returning the last rule that has a keyword in the title
getBeautySecondSubCat_LastRule(title) ==
    LET hit == { i \in 1..Len(BEAUTY_RULES) : SomeIncluded(BEAUTY_RULES[i].keywords, title) }
    IN IF hit = {} THEN <<"1","2","0","0","0","0","0","1","2">>
       ELSE BEAUTY_RULES[CHOOSE i \in hit : \A j \in hit : j <= i].code

\* for (const rule of BEAUTY_RULES) for (const kw of rule.keywords) ...
getBeautySecondSubCat(title) ==
    LET hit == { i \in 1..Len(BEAUTY_RULES) : SomeIncluded(BEAUTY_RULES[i].keywords, title) }
    IN IF hit = {} THEN <<"1","2","0","0","0","0","0","1","2">>
       ELSE BEAUTY_RULES[CHOOSE i \in hit : \A j \in hit : i <= j].code

\* Qoo10CategoryDecision; beautySecondSubCat is <<>> when the field is unset
classifyQoo10Category(title) ==
    LET main == getMainCategoryCode(title)
    IN IF main = <<"1","2","0","0","0","0">>
       THEN [main |-> main, beautySecondSubCat |-> <<getBeautySecondSubCat(title)>>]
       ELSE [main |-> main, beautySecondSubCat |-> <<>>]

(***************************************************************************)
(* chooseCategory                                                          *)
(***************************************************************************)
\* chooseCategory asking the classifier first and the manual map afterwards
chooseCategory_AutoFirst(info, p, s) ==
    LET rawTitle == IF info # <<>> /\ info[1].title # <<>> THEN info[1].title ELSE p.name
        titleLower == toLowerCase(rawTitle)
        hit == { i \in 1..Len(s.categoryMap) :
                   /\ s.categoryMap[i].key # <<>>
                   /\ Includes(titleLower, toLowerCase(s.categoryMap[i].key)) }
        decision == classifyQoo10Category(rawTitle)
    IN IF s.autoCategoryEnabled
       THEN IF decision.main = <<"1","2","0","0","0","0">>
            THEN <<Number(IF decision.beautySecondSubCat # <<>>
                          THEN decision.beautySecondSubCat[1]
                          ELSE <<"1","2","0","0","0","0","0","1","2">>)>>
            ELSE <<Number(decision.main)>>
       ELSE IF hit # {}
       THEN <<s.categoryMap[CHOOSE i \in hit : \A j \in hit : i <= j].cat>>
       ELSE <<>>

\* settings.categoryMap is the list Object.entries gives for it: entries
\* [key, cat] with distinct keys. info is <<>> (undefined) or <<entry>>; the
\* return value is <<>> (undefined) or <<number>>.
chooseCategory(info, p, s) ==
    LET rawTitle == IF info # <<>> /\ info[1].title # <<>> THEN info[1].title ELSE p.name
        titleLower == toLowerCase(rawTitle)
        hit == { i \in 1..Len(s.categoryMap) :
                   /\ s.categoryMap[i].key # <<>>
                   /\ Includes(titleLower, toLowerCase(s.categoryMap[i].key)) }
    IN IF hit # {}
       THEN <<s.categoryMap[CHOOSE i \in hit : \A j \in hit : i <= j].cat>>
       ELSE IF ~s.autoCategoryEnabled THEN <<>>
       ELSE LET decision == classifyQoo10Category(rawTitle)
            IN IF decision.main = <<"1","2","0","0","0","0">>
               THEN <<Number(IF decision.beautySecondSubCat # <<>>
                             THEN decision.beautySecondSubCat[1]
                             ELSE <<"1","2","0","0","0","0","0","1","2">>)>>
               ELSE <<Number(decision.main)>>

(***************************************************************************)
(* Settings and products                                                   *)
(***************************************************************************)
\* nameEraseWords holds "Amazon.co.jp" followed by the two kanji of "limited",
\* and the two kanji of "dispatch"; the keys of categoryMap are henna, shampoo
\* and supplement in katakana.
DEFAULT_SETTINGS ==
    [ primeOnly         |-> TRUE,
      primeShipDaysMax  |-> 3,
      maxStockPerItem   |-> 2,
      shippingCode      |-> "645035",
      rules             |-> << [min |-> 1, max |-> <<3000>>, mulNum |-> 12, mulDen |-> 10, plus |-> 400],
                               [min |-> 3001, max |-> <<6000>>, mulNum |-> 12, mulDen |-> 10, plus |-> 500],
                               [min |-> 6001, max |-> <<>>, mulNum |-> 12, mulDen |-> 10, plus |-> 600] >>,
      noListASINs       |-> <<>>,
      noListWords       |-> <<>>,
      nameEraseWords    |-> << <<"A","m","a","z","o","n",".","c","o",".","j","p"," ","u9650","u5B9A">>,
                               <<"u767A","u9001">> >>,
      keepASINsOnDelete |-> <<>>,
      categoryMap       |-> << [key |-> <<"u30D8","u30CA">>, cat |-> 120000],
                               [key |-> <<"u30B7","u30E3","u30F3","u30D7","u30FC">>, cat |-> 120000],
                               [key |-> <<"u30B5","u30D7","u30EA">>, cat |-> 130000] >>,
      autoCategoryEnabled |-> TRUE ]

Asin1 == "B000000001"
Asin2 == "B000000002"
Asins == {Asin1, Asin2}
AsinOrder == <<Asin1, Asin2>>

\* deny-word lists a user (or a stored snapshot) can hold; the second holds two
\* words that both occur in the name "ab", the third an empty entry
NoListWordsSet ==
    { <<>>,
      << <<"b">>, <<"a","b">> >>,
      << <<>>, <<"c">> >> }

\* the settings values a run can start with (stored snapshot or editor)
SettingsSet ==
    { [DEFAULT_SETTINGS EXCEPT !.primeOnly = po, !.noListASINs = na, !.noListWords = nw] :
        po \in BOOLEAN, na \in {<<>>, <<Asin2>>}, nw \in NoListWordsSet }

\* the identifier of the end-to-end scenario (eleven characters)
Asin3 == "B00TEST0001"

Product1 == [id |-> 1, asin |-> Asin1, name |-> <<"a","b">>, jan |-> ""]
Product2 == [id |-> 2, asin |-> Asin2, name |-> <<"b","c">>, jan |-> "4900000000002"]

\* product lists restored from the stored snapshot (SEED_PRODUCTS is empty)
\* the candidate of the end-to-end scenario, as added by the CSV import
Product3 ==
    [id |-> 1, asin |-> Asin3, jan |-> "",
     name |-> <<"u65E5","u713C","u3051","u6B62","u3081"," ","5","0","m","l">>]

ProductLists == { <<>>, <<Product1>>, <<Product1, Product2>> }

\* the search box is left empty, so the memo returns products itself
filteredProducts == products

(***************************************************************************)
(* Sequence helpers                                                        *)
(***************************************************************************)
\* Array.prototype.includes / Set.prototype.has on a list
Has(list, x) == \E i \in 1..Len(list) : list[i] = x

\* all sequences over S of length at most n
SeqUpTo(S, n) == UNION { [1..k -> S] : k \in 0..n }

(***************************************************************************)
(* parseAsinCsv                                                            *)
(***************************************************************************)
\* String.prototype.split on a one-character separator class
RECURSIVE SplitOn(_, _)
SplitOn(str, seps) ==
    LET at == { i \in 1..Len(str) : str[i] \in seps }
    IN IF at = {} THEN <<str>>
       ELSE LET i == CHOOSE k \in at : \A m \in at : k <= m
            IN <<SubSeq(str, 1, i - 1)>> \o SplitOn(SubSeq(str, i + 1, Len(str)), seps)

\* text.split(/\r?\n/): a carriage return right before a line feed belongs
\* to the separator
SplitLines(text) ==
    LET pieces == SplitOn(text, {"\n"})
    IN [k \in 1..Len(pieces) |->
          IF k < Len(pieces) /\ pieces[k] # <<>> /\ pieces[k][Len(pieces[k])] = "\r"
          THEN SubSeq(pieces[k], 1, Len(pieces[k]) - 1)
          ELSE pieces[k]]

\* row.split(/[,;\t]/)
SplitCells(row) == SplitOn(row, {",", ";", "\t"})

QuoteChars == {"\"", "'"}

RECURSIVE StripLeadingQuotes(_)
StripLeadingQuotes(c) ==
    IF c # <<>> /\ Head(c) \in QuoteChars THEN StripLeadingQuotes(Tail(c)) ELSE c

RECURSIVE StripTrailingQuotes(_)
StripTrailingQuotes(c) ==
    IF c # <<>> /\ c[Len(c)] \in QuoteChars
    THEN StripTrailingQuotes(SubSeq(c, 1, Len(c) - 1))
    ELSE c

\* c.replace(/^["']+|["']+$/g, "")
StripQuotes(c) == StripTrailingQuotes(StripLeadingQuotes(c))

\* length of an identifier in /^[A-Z0-9]{10}$/i
AsinLength == 10

\* /^[A-Z0-9]{10}$/i.test(c)
IsAsin(c) ==
    /\ Len(c) = AsinLength
    /\ \A i \in 1..Len(c) :
          \/ IndexOf(UpperLetters, c[i]) # 0
          \/ IndexOf(LowerLetters, c[i]) # 0
          \/ IndexOf(DigitChars, c[i]) # 0

\* the result list returned with its repetitions
ArrayFromSet_Keep(list) == list

\* Array.from(new Set(list)): first occurrences, in order
RECURSIVE ArrayFromSet(_)
ArrayFromSet(list) ==
    IF list = <<>> THEN <<>>
    ELSE LET front == ArrayFromSet(SubSeq(list, 1, Len(list) - 1))
         IN IF Has(front, list[Len(list)]) THEN front ELSE Append(front, list[Len(list)])

\* the column taken to be 0 whatever the header says
ColumnOf_AlwaysFirst(asinIndex) == 0

\* asinIndex !== -1 ? asinIndex : 0 (columns count from 0)
ColumnOf(asinIndex) == IF asinIndex # -1 THEN asinIndex ELSE 0

\* the identifiers one row pushes: none or one
RowAsins(row, asinIndex) ==
    IF row = <<>> THEN <<>>
    ELSE LET cells == SplitCells(row)
             idx == ColumnOf(asinIndex)
         IN IF idx >= Len(cells) THEN <<>>
            ELSE LET raw == Trim(cells[idx + 1])
                     cleaned == Trim(StripQuotes(raw))
                 IN IF cleaned = <<>> THEN <<>>
                    ELSE IF IsAsin(cleaned) THEN <<toUpperCase(cleaned)>>
                    ELSE <<>>

RECURSIVE RowsAsins(_, _)
RowsAsins(rows, asinIndex) ==
    IF rows = <<>> THEN <<>>
    ELSE RowAsins(Head(rows), asinIndex) \o RowsAsins(Tail(rows), asinIndex)

parseAsinCsv(text) ==
    LET rawLines == SplitLines(text)
        trimmed == [i \in 1..Len(rawLines) |-> Trim(rawLines[i])]
        kept == SelectSeq(trimmed, LAMBDA l : l # <<>>)
    IN IF kept = <<>> THEN <<>>
       ELSE LET lines == IF Head(kept)[1] = "uFEFF"
                         THEN <<Tail(Head(kept))>> \o Tail(kept)
                         ELSE kept
                split == SplitCells(lines[1])
                headerCells == [i \in 1..Len(split) |->
                                   toLowerCase(Trim(StripQuotes(split[i])))]
                asinIndex == IndexOf(headerCells, <<"a","s","i","n">>) - 1
                startRow == IF asinIndex # -1 THEN 1 ELSE 0
            IN ArrayFromSet(RowsAsins(SubSeq(lines, startRow + 1, Len(lines)), asinIndex))

(***************************************************************************)
(* api/qeasy.ts: transport and wrappers                                    *)
(***************************************************************************)
\* A JSON value as the code can tell it apart: a list with its items, an
\* object (its content in items), null, or undefined (a void return).
List(items) == [kind |-> "list", items |-> items]
Object(o) == [kind |-> "object", items |-> <<o>>]
JsonNull == [kind |-> "null", items |-> <<>>]
Undefined == [kind |-> "undefined", items |-> <<>>]
\* an object that is not the list the wrapper's type promises
ErrorObject == [kind |-> "object", items |-> <<>>]

\* What one HTTP exchange can do: fetch rejects, the status is not ok, the
\* body is not JSON, or a JSON body arrives.
Transports(bodies) ==
    { [kind |-> k, body |-> Undefined] : k \in {"network", "http", "badjson"} }
    \cup { [kind |-> "ok", body |-> b] : b \in bodies }

Returned(v) == [threw |-> FALSE, value |-> v]
Thrown == [threw |-> TRUE, value |-> Undefined]

getJson(t) == IF t.kind = "ok" THEN Returned(t.body) ELSE Thrown

postJson(t) == IF t.kind = "ok" THEN Returned(t.body) ELSE Thrown

fetchAmazonBulk(asins, t) ==
    IF asins = <<>> THEN Returned(List(<<>>))
    ELSE LET r == postJson(t) IN IF r.threw THEN Returned(List(<<>>)) ELSE r

checkQoo10Existing(asins, t) ==
    IF asins = <<>> THEN Returned(List(<<>>))
    ELSE LET r == postJson(t) IN IF r.threw THEN Returned(List(<<>>)) ELSE r

FailureMessage == "listing API call failed (server may be down)"

\* the creation wrapper degrading to an empty list like the read wrappers
createQoo10Listings_EmptyOnFailure(items, t) ==
    IF items = <<>> THEN Returned(List(<<>>))
    ELSE LET r == postJson(t) IN IF r.threw THEN Returned(List(<<>>)) ELSE r

createQoo10Listings(items, t) ==
    IF items = <<>> THEN Returned(List(<<>>))
    ELSE LET r == postJson(t)
         IN IF r.threw
            THEN Returned(List([i \in 1..Len(items) |->
                      [asin |-> items[i].asin, ok |-> FALSE,
                       message |-> FailureMessage, code |-> "", qoo10ItemCode |-> ""]]))
            ELSE r

fetchSettings(t) ==
    LET r == getJson(t) IN IF r.threw THEN Returned(JsonNull) ELSE r

saveSettings(s, t) ==
    LET r == postJson(t) IN IF r.threw THEN Returned(Undefined) ELSE Returned(Undefined)

fetchItems(t) ==
    LET r == getJson(t) IN IF r.threw THEN Returned(List(<<>>)) ELSE r

saveItems(items, t) ==
    LET r == postJson(t) IN IF r.threw THEN Returned(Undefined) ELSE Returned(Undefined)

refreshItems(t) ==
    LET r == postJson(t) IN IF r.threw THEN Returned(Undefined) ELSE Returned(Undefined)

(***************************************************************************)
(* What the collaborators can answer                                       *)
(***************************************************************************)
\* Enrichment data of one identifier, without the identifier. isPrime is
\* "true", "false" or "absent"; title <<>> is an absent (or empty) title.
InfoVariants ==
    { [price |-> <<>>,     sellerCount |-> <<1>>, isPrime |-> "false",  shipDays |-> <<>>,  title |-> <<>>, image |-> ""],
      [price |-> <<0>>,    sellerCount |-> <<5>>, isPrime |-> "true",   shipDays |-> <<2>>, title |-> <<>>, image |-> "img"],
      [price |-> <<2500>>, sellerCount |-> <<1>>, isPrime |-> "false",  shipDays |-> <<>>,  title |-> <<>>, image |-> ""],
      [price |-> <<2500>>, sellerCount |-> <<5>>, isPrime |-> "true",   shipDays |-> <<5>>, title |-> <<>>, image |-> "img"],
      [price |-> <<2500>>, sellerCount |-> <<1>>, isPrime |-> "absent", shipDays |-> <<>>,  title |-> <<>>, image |-> "img"],
      [price |-> <<2500>>, sellerCount |-> <<0>>, isPrime |-> "true",   shipDays |-> <<2>>, title |-> <<>>, image |-> ""],
      [price |-> <<2500>>, sellerCount |-> <<>>,  isPrime |-> "absent", shipDays |-> <<>>,
       title |-> <<"u767A","u9001","a"," "," ","b"," ">>, image |-> "img"],
      [price |-> <<2500>>, sellerCount |-> <<5>>, isPrime |-> "true",   shipDays |-> <<2>>, title |-> <<>>, image |-> "img"],
      [price |-> <<-1>>,   sellerCount |-> <<5>>, isPrime |-> "true",   shipDays |-> <<3>>, title |-> <<>>, image |-> ""] }

Info(asin, v) ==
    [asin |-> asin, price |-> v.price, sellerCount |-> v.sellerCount,
     isPrime |-> v.isPrime, shipDays |-> v.shipDays, title |-> v.title, image |-> v.image]

\* an enrichment answer holds at most one entry per identifier (<<>> = no data)
RECURSIVE InfoList(_, _)
InfoList(order, f) ==
    IF order = <<>> THEN <<>>
    ELSE (IF f[Head(order)] = <<>> THEN <<>> ELSE <<Info(Head(order), f[Head(order)][1])>>)
         \o InfoList(Tail(order), f)

\* the sunscreen of the end-to-end scenario: price 2500, prime, five sellers,
\* title "sunscreen 50ml" in Japanese; the delivery time is absent, short or long
SunscreenInfo(days) ==
    [price |-> <<2500>>, sellerCount |-> <<5>>, isPrime |-> "true", shipDays |-> days,
     title |-> <<"u65E5","u713C","u3051","u6B62","u3081"," ","5","0","m","l">>, image |-> "img"]

SunscreenVariants == { SunscreenInfo(d) : d \in {<<>>, <<2>>, <<5>>} }

InfoChoices(asin) ==
    { <<v>> : v \in (IF asin = Asin3 THEN SunscreenVariants ELSE InfoVariants) } \cup { <<>> }

\* the identifiers an answer speaks about: those of the two-product catalogue,
\* or the scenario identifier when that is what was sent
World(asked) == IF Has(asked, Asin3) THEN <<Asin3>> ELSE AsinOrder

Members(list) == { list[i] : i \in 1..Len(list) }

AmazonBodies(asked) ==
    { List(InfoList(World(asked), f)) :
        f \in { g \in [Members(World(asked)) -> UNION { InfoChoices(a) : a \in Members(World(asked)) }] :
                  \A a \in Members(World(asked)) : g[a] \in InfoChoices(a) } }
    \cup {ErrorObject, JsonNull}

\* every sub-list of the identifiers, in their order
RECURSIVE SubLists(_)
SubLists(list) ==
    IF list = <<>> THEN { <<>> }
    ELSE LET rest == SubLists(Tail(list))
         IN rest \cup { <<Head(list)>> \o l : l \in rest }

ExistingBodies(asked) ==
    { List(l) : l \in SubLists(World(asked)) } \cup {ErrorObject, JsonNull}

CreatedItems(asked) ==
    { [asin |-> a, ok |-> TRUE, message |-> "", code |-> "", qoo10ItemCode |-> "Q1"] :
        a \in Members(World(asked)) }
    \cup { [asin |-> a, ok |-> FALSE, message |-> "", code |-> c, qoo10ItemCode |-> ""] :
             a \in Members(World(asked)), c \in {"", "E1"} }

CreatedBodies(asked) ==
    { List(l) : l \in SeqUpTo(CreatedItems(asked), MaxCreated) } \cup {ErrorObject, JsonNull}

(***************************************************************************)
(* runListing: the rule loop                                               *)
(***************************************************************************)
\* ListingResultItem; message is <<text, argument>>, hitWords <<>> when unset
Outcome(asin, name, status, text, arg, hits, code) ==
    [asin |-> asin, name |-> name, status |-> status, message |-> <<text, arg>>,
     hitWords |-> hits, qoo10ItemCode |-> code]

\* infoMap.get(asin) after the forEach that fills the map: the last entry
\* with a non-empty asin wins; <<>> is undefined
InfoFor(items, asin) ==
    LET idx == { i \in 1..Len(items) : items[i].asin # "" /\ items[i].asin = asin }
    IN IF idx = {} THEN <<>>
       ELSE <<items[CHOOSE i \in idx : \A j \in idx : j <= i]>>

ShowNumber(n) == IF n = <<>> THEN "-" ELSE ToString(n[1])

\* the prime condition with an absent isPrime taken as "not prime"
PrimeRejected_UnlessPrime(info, s) ==
    /\ s.primeOnly
    /\ \/ info.isPrime # "true"
       \/ (info.shipDays # <<>> /\ info.shipDays[1] > s.primeShipDaysMax)

\* settings.primeOnly && (isPrime === false || shipDays > primeShipDaysMax)
PrimeRejected(info, s) ==
    /\ s.primeOnly
    /\ \/ info.isPrime = "false"
       \/ (info.shipDays # <<>> /\ info.shipDays[1] > s.primeShipDaysMax)

\* the seller rule with the bound off by one
SellerRejected_BelowOne(info) == info.sellerCount # <<>> /\ info.sellerCount[1] < 1

SellerRejected(info) == info.sellerCount # <<>> /\ info.sellerCount[1] <= 1

\* the word filter stopping at the first hit
HitWords_FirstOnly(name, s) ==
    LET all == SelectSeq(s.noListWords, LAMBDA w : w # <<>> /\ Includes(name, w))
    IN IF all = <<>> THEN <<>> ELSE <<all[1]>>

HitWords(name, s) == SelectSeq(s.noListWords, LAMBDA w : w # <<>> /\ Includes(name, w))

stockOf(s) == IF s.maxStockPerItem > 0 THEN s.maxStockPerItem ELSE 1

\* EvalCandidate with the existing-listing check placed before the two
\* deny-list checks
EvalCandidate_ExistsFirst(p, items, existing, s) ==
    LET got == InfoFor(items, p.asin)
        Rejected(o) == [outcome |-> <<o>>, payload |-> <<>>]
    IN IF got = <<>> \/ got[1].price = <<>> \/ got[1].price[1] = 0
       THEN Rejected(Outcome(p.asin, p.name, "error", "amazon price unavailable", "", <<>>, ""))
       ELSE LET info == got[1] IN
       IF PrimeRejected(info, s)
       THEN Rejected(Outcome(p.asin, p.name, "forbidden", "prime condition not met",
                             ShowNumber(info.shipDays), <<>>, ""))
       ELSE IF SellerRejected(info)
       THEN Rejected(Outcome(p.asin, p.name, "forbidden", "single seller",
                             ShowNumber(info.sellerCount), <<>>, ""))
       ELSE IF Has(existing, p.asin)
       THEN Rejected(Outcome(p.asin, p.name, "exists", "already on qoo10", "", <<>>, ""))
       ELSE IF Has(s.noListASINs, p.asin)
       THEN Rejected(Outcome(p.asin, p.name, "forbidden", "no-list asin", "", <<>>, ""))
       ELSE LET hitWords == HitWords(p.name, s) IN
       IF hitWords # <<>>
       THEN Rejected(Outcome(p.asin, p.name, "forbidden", "no-list word", "", hitWords, ""))
       ELSE LET title == stripWords(IF info.title # <<>> THEN info.title ELSE p.name,
                                    s.nameEraseWords)
                price == applyRule(info.price, s.rules)
            IN IF price = 0 \/ price <= 0
               THEN Rejected(Outcome(p.asin, p.name, "error", "price after rules invalid", "", <<>>, ""))
               ELSE [outcome |-> <<>>,
                     payload |-> << [asin |-> p.asin, price |-> price,
                                     shippingCode |-> s.shippingCode, title |-> title,
                                     imageUrl |-> info.image,
                                     categoryNo |-> chooseCategory(got, p, s),
                                     stock |-> stockOf(s), jan |-> p.jan] >>]

\* One pass of the loop body for candidate p: the outcome it pushes, or the
\* payload it pushes (each <<>> or a one-element list).
EvalCandidate(p, items, existing, s) ==
    LET got == InfoFor(items, p.asin)
        Rejected(o) == [outcome |-> <<o>>, payload |-> <<>>]
    IN IF got = <<>> \/ got[1].price = <<>> \/ got[1].price[1] = 0
       THEN Rejected(Outcome(p.asin, p.name, "error", "amazon price unavailable", "", <<>>, ""))
       ELSE LET info == got[1] IN
       IF PrimeRejected(info, s)
       THEN Rejected(Outcome(p.asin, p.name, "forbidden", "prime condition not met",
                             ShowNumber(info.shipDays), <<>>, ""))
       ELSE IF SellerRejected(info)
       THEN Rejected(Outcome(p.asin, p.name, "forbidden", "single seller",
                             ShowNumber(info.sellerCount), <<>>, ""))
       ELSE IF Has(s.noListASINs, p.asin)
       THEN Rejected(Outcome(p.asin, p.name, "forbidden", "no-list asin", "", <<>>, ""))
       ELSE LET hitWords == HitWords(p.name, s) IN
       IF hitWords # <<>>
       THEN Rejected(Outcome(p.asin, p.name, "forbidden", "no-list word", "", hitWords, ""))
       ELSE IF Has(existing, p.asin)
       THEN Rejected(Outcome(p.asin, p.name, "exists", "already on qoo10", "", <<>>, ""))
       ELSE LET title == stripWords(IF info.title # <<>> THEN info.title ELSE p.name,
                                    s.nameEraseWords)
                price == applyRule(info.price, s.rules)
            IN IF price = 0 \/ price <= 0
               THEN Rejected(Outcome(p.asin, p.name, "error", "price after rules invalid", "", <<>>, ""))
               ELSE [outcome |-> <<>>,
                     payload |-> << [asin |-> p.asin, price |-> price,
                                     shippingCode |-> s.shippingCode, title |-> title,
                                     imageUrl |-> info.image,
                                     categoryNo |-> chooseCategory(got, p, s),
                                     stock |-> stockOf(s), jan |-> p.jan] >>]

\* for (const p of targets) { ... }: results and payloads in target order
RECURSIVE RuleLoop(_, _, _, _)
RuleLoop(ts, items, existing, s) ==
    IF ts = <<>> THEN [results |-> <<>>, payloads |-> <<>>]
    ELSE LET one == EvalCandidate(Head(ts), items, existing, s)
             rest == RuleLoop(Tail(ts), items, existing, s)
         IN [results |-> one.outcome \o rest.results,
             payloads |-> one.payload \o rest.payloads]

\* targets.find((p) => p.asin === r.asin)?.name || r.asin
BaseName(ts, asin) ==
    LET idx == { i \in 1..Len(ts) : ts[i].asin = asin }
    IN IF idx # {} /\ ts[CHOOSE i \in idx : \A j \in idx : i <= j].name # <<>>
       THEN ts[CHOOSE i \in idx : \A j \in idx : i <= j].name
       ELSE <<asin>>

\* the outcome pushed for one item of the creation answer
CreatedOutcome(r, ts) ==
    IF r.ok
    THEN Outcome(r.asin, BaseName(ts, r.asin), "success",
                 IF r.message # "" THEN r.message ELSE "listing created", "", <<>>,
                 r.qoo10ItemCode)
    ELSE Outcome(r.asin, BaseName(ts, r.asin), "error",
                 IF r.message # "" THEN r.message
                 ELSE IF r.code # "" THEN "listing API error (code)"
                 ELSE "listing API returned an error",
                 IF r.message = "" THEN r.code ELSE "", <<>>, "")

\* for (const r of created) results.push(...)
MergeCreated(list, ts) == [i \in 1..Len(list) |-> CreatedOutcome(list[i], ts)]

\* the single outcome the catch block reports
SyntheticError == Outcome("-", <<>>, "error", "unexpected error", "", <<>>, "")

\* useState<ListingResultItem[] | null>
Null == [isNull |-> TRUE, items |-> <<>>]
Results(items) == [isNull |-> FALSE, items |-> items]

(***************************************************************************)
(* ListingResultInline: the four buckets                                   *)
(***************************************************************************)
WithStatus(items, st) == SelectSeq(items, LAMBDA r : r.status = st)

\* rendered FALSE is the component returning null
NoView ==
    [rendered |-> FALSE, exists |-> <<>>, forbidden |-> <<>>, error |-> <<>>, success |-> <<>>]

\* the error bucket taking every outcome that is not a success
ListingResultInline_ErrorCatchAll(res) ==
    IF res.isNull \/ Len(res.items) = 0 THEN NoView
    ELSE [rendered  |-> TRUE,
          exists    |-> WithStatus(res.items, "exists"),
          forbidden |-> WithStatus(res.items, "forbidden"),
          error     |-> SelectSeq(res.items, LAMBDA r : r.status # "success"),
          success   |-> WithStatus(res.items, "success")]

ListingResultInline(res) ==
    IF res.isNull \/ Len(res.items) = 0 THEN NoView
    ELSE [rendered  |-> TRUE,
          exists    |-> WithStatus(res.items, "exists"),
          forbidden |-> WithStatus(res.items, "forbidden"),
          error     |-> WithStatus(res.items, "error"),
          success   |-> WithStatus(res.items, "success")]

(***************************************************************************)
(* The application: state after construction and the handlers              *)
(***************************************************************************)
NoCall ==
    [op |-> "none", failed |-> FALSE, threw |-> FALSE, value |-> Undefined,
     sent |-> <<>>, outcomes |-> <<>>]

\* no pure function is applied on its own
NoApplied == [op |-> "none", done |-> FALSE]

\* syncs: the sets of mount-effect calls that can still be in flight
InitFrom(settingsSet, productLists, syncs) ==
    /\ settings \in settingsSet
    /\ products \in productLists
    /\ selected = {}
    /\ loading = FALSE
    /\ listingResults = Null
    /\ pc = "idle"
    /\ rsettings = settings
    /\ targets = <<>>
    /\ amazonDone = FALSE
    /\ existDone = FALSE
    /\ amazonInfos = List(<<>>)
    /\ existingAsins = List(<<>>)
    /\ existFailed = FALSE
    /\ amazonFailed = FALSE
    /\ results = <<>>
    /\ payloads = <<>>
    /\ created = List(<<>>)
    /\ createCalls = 0
    /\ evalReads = {}
    /\ caught = FALSE
    /\ view = ListingResultInline(Null)
    /\ apiCall = NoCall
    /\ applied = NoApplied
    /\ syncPending \in syncs
    /\ rerendered = FALSE
    /\ second = "none"

Init == InitFrom(SettingsSet, ProductLists, {{}})

\* the checkbox of a listed product is ticked or unticked
toggleSelect(id, checked) ==
    /\ pc \in {"idle", "awaitReads", "awaitCreate"}
    /\ selected' = IF checked THEN selected \cup {id} ELSE selected \ {id}
    /\ UNCHANGED <<settings, products, loading, listingResults, view, apiCall,
                   applied, syncPending, rerendered, second>>
    /\ UNCHANGED runVars

ToggleSelect ==
    \E i \in 1..Len(filteredProducts) :
        toggleSelect(filteredProducts[i].id, filteredProducts[i].id \notin selected)

\* selected.size > 0 ? products.filter(selected.has) : filteredProducts
TargetsOf(prods, sel) ==
    IF Cardinality(sel) > 0 THEN SelectSeq(prods, LAMBDA p : p.id \in sel)
    ELSE filteredProducts

AsinsOf(ts) == [i \in 1..Len(ts) |-> ts[i].asin]

\* runListing up to its first await (or to its return when nothing is targeted)
RunListingStart ==
    /\ pc = "idle"
    /\ ~loading
    /\ LET ts == TargetsOf(products, selected) IN
       /\ targets' = ts
       /\ rsettings' = settings
       /\ amazonDone' = FALSE
       /\ existDone' = FALSE
       /\ amazonInfos' = List(<<>>)
       /\ existingAsins' = List(<<>>)
       /\ existFailed' = FALSE
       /\ amazonFailed' = FALSE
       /\ results' = <<>>
       /\ payloads' = <<>>
       /\ created' = List(<<>>)
       /\ createCalls' = 0
       /\ evalReads' = {}
       /\ caught' = FALSE
       /\ IF ts = <<>>
          THEN /\ listingResults' = Results(<<>>)
               /\ loading' = FALSE
               /\ pc' = "idle"
          ELSE /\ listingResults' = Null
               /\ loading' = TRUE
               /\ pc' = "awaitReads"
    /\ view' = ListingResultInline(listingResults')
    /\ rerendered' = FALSE
    /\ UNCHANGED <<settings, products, selected, apiCall, applied, syncPending, second>>

\* the enrichment call of the run resolves
FetchAmazonBulkDone ==
    /\ pc = "awaitReads"
    /\ ~amazonDone
    /\ \E t \in Transports(AmazonBodies(AsinsOf(targets))) :
         /\ amazonInfos' = fetchAmazonBulk(AsinsOf(targets), t).value
         /\ amazonFailed' = (t.kind # "ok")
    /\ amazonDone' = TRUE
    /\ UNCHANGED <<settings, products, selected, loading, listingResults, view, apiCall,
                   applied, syncPending, rerendered, second, pc, rsettings, targets, existDone, existingAsins, existFailed,
                   results, payloads, created, createCalls, evalReads, caught>>

\* the existing-listing call of the run resolves
CheckQoo10ExistingDone ==
    /\ pc = "awaitReads"
    /\ ~existDone
    /\ \E t \in Transports(ExistingBodies(AsinsOf(targets))) :
         /\ existingAsins' = checkQoo10Existing(AsinsOf(targets), t).value
         /\ existFailed' = (t.kind # "ok")
    /\ existDone' = TRUE
    /\ UNCHANGED <<settings, products, selected, loading, listingResults, view, apiCall,
                   applied, syncPending, rerendered, second, pc, rsettings, targets, amazonDone, amazonInfos, amazonFailed,
                   results, payloads, created, createCalls, evalReads, caught>>

\* waiting for the first of the two reads only
ReadsSettled_Any == amazonDone \/ existDone

\* Promise.all([...]) has resolved
ReadsSettled == amazonDone /\ existDone

\* amazonInfos.forEach(...) and new Set(existingAsins) throw a TypeError
ReadsThrow ==
    \/ amazonInfos.kind # "list"
    \/ existingAsins.kind \notin {"list", "null"}

\* the catch block without the finally block
CatchAndFinish_NoFinally ==
    /\ listingResults' = Results(<<SyntheticError>>)
    /\ caught' = TRUE
    /\ UNCHANGED loading
    /\ pc' = "idle"
    /\ UNCHANGED selected

\* catch (e) { setListingResults([synthetic]) } finally { setLoading(false) }
CatchAndFinish ==
    /\ listingResults' = Results(<<SyntheticError>>)
    /\ caught' = TRUE
    /\ loading' = FALSE
    /\ pc' = "idle"
    /\ UNCHANGED selected

\* setListingResults(results); clearSelection(); finally setLoading(false)
ReportAndFinish(res) ==
    /\ listingResults' = Results(res)
    /\ selected' = {}
    /\ caught' = FALSE
    /\ loading' = FALSE
    /\ pc' = "idle"

\* settings as read by the rule loop, reading the state of the latest render
SettingsRead_Live == settings

\* settings as read by the rule loop: the constant of the render whose
\* runListing closure is running
SettingsRead == rsettings

\* runListing from the resolution of both reads to the creation call (or to
\* its return when no payload was produced)
EvaluateRules ==
    /\ pc = "awaitReads"
    /\ ReadsSettled
    /\ evalReads' = {r \in {"amazon", "existing"} :
                        (r = "amazon" /\ amazonDone) \/ (r = "existing" /\ existDone)}
    /\ IF ReadsThrow
       THEN /\ CatchAndFinish
            /\ UNCHANGED <<results, payloads, createCalls>>
       ELSE LET out == RuleLoop(targets, amazonInfos.items, existingAsins.items, SettingsRead) IN
            /\ results' = out.results
            /\ payloads' = out.payloads
            /\ IF out.payloads = <<>>
               THEN /\ ReportAndFinish(out.results)
                    /\ UNCHANGED createCalls
               ELSE /\ createCalls' = createCalls + 1
                    /\ pc' = "awaitCreate"
                    /\ UNCHANGED <<listingResults, selected, caught, loading>>
    /\ view' = ListingResultInline(listingResults')
    /\ UNCHANGED <<settings, products, apiCall, applied, syncPending, rerendered, second,
                   rsettings, targets, amazonDone, existDone,
                   amazonInfos, existingAsins, existFailed, amazonFailed, created>>

\* the creation call resolves and runListing runs to its end
CreateQoo10ListingsDone ==
    /\ pc = "awaitCreate"
    /\ \E t \in Transports(CreatedBodies(AsinsOf(payloads))) :
         /\ created' = createQoo10Listings(payloads, t).value
         /\ IF created'.kind # "list"
            THEN /\ CatchAndFinish
                 /\ UNCHANGED results
            ELSE /\ results' = results \o MergeCreated(created'.items, targets)
                 /\ ReportAndFinish(results')
    /\ view' = ListingResultInline(listingResults')
    /\ UNCHANGED <<settings, products, apiCall, applied, syncPending, rerendered, second,
                   rsettings, targets, amazonDone, existDone,
                   amazonInfos, existingAsins, existFailed, amazonFailed, payloads,
                   createCalls, evalReads>>

Next ==
    \/ ToggleSelect
    \/ RunListingStart
    \/ FetchAmazonBulkDone
    \/ CheckQoo10ExistingDone
    \/ EvaluateRules
    \/ CreateQoo10ListingsDone

Spec == Init /\ [][Next]_vars

(***************************************************************************)
(* The aggregator on its own: any outcome list is rendered once            *)
(***************************************************************************)
StatusSet == {"exists", "forbidden", "error", "success"}

OutcomeSamples ==
    { Outcome(a, <<"a">>, st, "message", "", <<>>, "") : a \in Asins, st \in StatusSet }

\* no listing run is going on
NoRun ==
    /\ selected = {}
    /\ loading = FALSE
    /\ rsettings = settings
    /\ targets = <<>>
    /\ amazonDone = FALSE
    /\ existDone = FALSE
    /\ amazonInfos = List(<<>>)
    /\ existingAsins = List(<<>>)
    /\ existFailed = FALSE
    /\ amazonFailed = FALSE
    /\ results = <<>>
    /\ payloads = <<>>
    /\ created = List(<<>>)
    /\ createCalls = 0
    /\ evalReads = {}
    /\ caught = FALSE
    /\ syncPending = {}
    /\ rerendered = FALSE
    /\ second = "none"

InitAgg ==
    /\ settings = DEFAULT_SETTINGS
    /\ products = <<>>
    /\ NoRun
    /\ listingResults \in { Results(l) : l \in SeqUpTo(OutcomeSamples, MaxOutcomes) }
    /\ pc = "aggregate"
    /\ view = NoView
    /\ apiCall = NoCall
    /\ applied = NoApplied

\* <ListingResultInline results={listingResults} />
RenderResults ==
    /\ pc = "aggregate"
    /\ view' = ListingResultInline(listingResults)
    /\ pc' = "aggregated"
    /\ UNCHANGED <<settings, products, selected, loading, listingResults, rsettings,
                   targets, amazonDone, existDone, amazonInfos, existingAsins,
                   existFailed, amazonFailed, results, payloads, created, createCalls,
                   evalReads, caught, apiCall, applied, syncPending, rerendered, second>>

NextAgg == RenderResults

SpecAgg == InitAgg /\ [][NextAgg]_vars

(***************************************************************************)
(* The wrappers on their own: each is called once with any transport       *)
(***************************************************************************)
PayloadFor(p) ==
    [asin |-> p.asin, price |-> 3400, shippingCode |-> DEFAULT_SETTINGS.shippingCode,
     title |-> p.name, imageUrl |-> "img", categoryNo |-> <<120000012>>, stock |-> 2,
     jan |-> p.jan]

PayloadLists ==
    { <<>>, <<PayloadFor(Product1)>>, <<PayloadFor(Product2)>>,
      <<PayloadFor(Product1), PayloadFor(Product2)>>,
      <<PayloadFor(Product2), PayloadFor(Product1)>> }

AsinLists == { <<>>, <<Asin1>>, <<Asin1, Asin2>> }

\* QeasyItem lists the item store can hold
ItemLists ==
    { <<>>,
      << [asin |-> Asin1, name |-> <<"a","b">>] >>,
      << [asin |-> Asin2, name |-> <<"b","c">>], [asin |-> Asin1, name |-> <<"a","b">>] >>,
      << [asin |-> "", name |-> <<"c">>], [asin |-> Asin2, name |-> <<>>] >> }

EmptyObject == ErrorObject

\* the record of one wrapper call: what was sent, whether the transport
\* failed, whether the wrapper threw and what it returned
Call(op, sent, t, r) ==
    [op |-> op, failed |-> (t.kind # "ok"), threw |-> r.threw, value |-> r.value,
     sent |-> sent,
     outcomes |-> IF op = "createQoo10Listings" /\ r.value.kind = "list"
                  THEN MergeCreated(r.value.items, <<Product1, Product2>>)
                  ELSE <<>>]

InitApi ==
    /\ settings = DEFAULT_SETTINGS
    /\ products = <<>>
    /\ NoRun
    /\ listingResults = Null
    /\ pc = "api"
    /\ view = NoView
    /\ apiCall = NoCall
    /\ applied = NoApplied

ApiUnchanged ==
    UNCHANGED <<settings, products, selected, loading, listingResults, pc, rsettings,
                targets, amazonDone, existDone, amazonInfos, existingAsins,
                existFailed, amazonFailed, results, payloads, created, createCalls,
                evalReads, caught, view, applied, syncPending, rerendered, second>>

CallFetchAmazonBulk ==
    /\ pc = "api"
    /\ \E asins \in AsinLists : \E t \in Transports(AmazonBodies(asins)) :
         apiCall' = Call("fetchAmazonBulk", asins, t, fetchAmazonBulk(asins, t))
    /\ ApiUnchanged

CallCheckQoo10Existing ==
    /\ pc = "api"
    /\ \E asins \in AsinLists : \E t \in Transports(ExistingBodies(asins)) :
         apiCall' = Call("checkQoo10Existing", asins, t, checkQoo10Existing(asins, t))
    /\ ApiUnchanged

CallCreateQoo10Listings ==
    /\ pc = "api"
    /\ \E items \in PayloadLists : \E t \in Transports(CreatedBodies(AsinsOf(items))) :
         apiCall' = Call("createQoo10Listings", items, t, createQoo10Listings(items, t))
    /\ ApiUnchanged

CallFetchSettings ==
    /\ pc = "api"
    /\ \E t \in Transports({Object(s) : s \in SettingsSet} \cup {JsonNull}) :
         apiCall' = Call("fetchSettings", <<>>, t, fetchSettings(t))
    /\ ApiUnchanged

CallSaveSettings ==
    /\ pc = "api"
    /\ \E s \in SettingsSet, t \in Transports({EmptyObject}) :
         apiCall' = Call("saveSettings", <<s>>, t, saveSettings(s, t))
    /\ ApiUnchanged

CallFetchItems ==
    /\ pc = "api"
    /\ \E t \in Transports({List(l) : l \in ItemLists} \cup {JsonNull}) :
         apiCall' = Call("fetchItems", <<>>, t, fetchItems(t))
    /\ ApiUnchanged

CallSaveItems ==
    /\ pc = "api"
    /\ \E items \in ItemLists, t \in Transports({EmptyObject}) :
         apiCall' = Call("saveItems", items, t, saveItems(items, t))
    /\ ApiUnchanged

CallRefreshItems ==
    /\ pc = "api"
    /\ \E t \in Transports({EmptyObject}) :
         apiCall' = Call("refreshItems", <<>>, t, refreshItems(t))
    /\ ApiUnchanged

NextApi ==
    \/ CallFetchAmazonBulk
    \/ CallCheckQoo10Existing
    \/ CallCreateQoo10Listings
    \/ CallFetchSettings
    \/ CallSaveSettings
    \/ CallFetchItems
    \/ CallSaveItems
    \/ CallRefreshItems

SpecApi == InitApi /\ [][NextApi]_vars

(***************************************************************************)
(* applyRule on its own: any sampled price under any short rule list       *)
(***************************************************************************)
\* <<>> is an absent price
PriceSamples ==
    { <<>> } \cup { <<n>> : n \in {-5, 0, 1, 2, 3, 10, 2500, 3000, 3001, 6000, 6001} }

\* the three default rules, a band overlapping the first two, a rule whose
\* result is negative and a rule whose results fall on halves
RuleSamples ==
    { DEFAULT_SETTINGS.rules[1], DEFAULT_SETTINGS.rules[2], DEFAULT_SETTINGS.rules[3],
      [min |-> 2000, max |-> <<4000>>, mulNum |-> 1, mulDen |-> 1, plus |-> 0],
      [min |-> 1, max |-> <<10>>, mulNum |-> 1, mulDen |-> 1, plus |-> -50],
      [min |-> 1, max |-> <<>>, mulNum |-> 15, mulDen |-> 10, plus |-> 0] }

\* every variable but applied keeps its value
PureUnchanged ==
    UNCHANGED <<settings, products, selected, loading, listingResults, pc, rsettings,
                targets, amazonDone, existDone, amazonInfos, existingAsins,
                existFailed, amazonFailed, results, payloads, created, createCalls,
                evalReads, caught, view, apiCall, syncPending, rerendered, second>>

InitPure(position) ==
    /\ settings = DEFAULT_SETTINGS
    /\ products = <<>>
    /\ NoRun
    /\ listingResults = Null
    /\ pc = position
    /\ view = NoView
    /\ apiCall = NoCall

InitPrice ==
    /\ InitPure("price")
    /\ applied \in { [op |-> "applyRule", done |-> FALSE, price |-> p, rules |-> r, value |-> 0] :
                        p \in PriceSamples, r \in SeqUpTo(RuleSamples, MaxRules) }

CallApplyRule ==
    /\ pc = "price"
    /\ ~applied.done
    /\ applied' = [applied EXCEPT !.value = applyRule(applied.price, applied.rules),
                                   !.done = TRUE]
    /\ PureUnchanged

NextPrice == CallApplyRule

SpecPrice == InitPrice /\ [][NextPrice]_vars

(***************************************************************************)
(* The category functions on their own: any short title under a few maps   *)
(***************************************************************************)
TitleParts ==
    { <<>>,
      <<"u30B5","u30D7","u30EA">>,  \* supplement (a supplement keyword)
      <<"D","H","A">>,  \* DHA (a supplement keyword)
      <<"u30B7","u30A7","u30FC","u30D0","u30FC">>,  \* shaver (a razor keyword)
      <<"u96FB","u52D5","u30B7","u30A7","u30FC","u30D0","u30FC">>,  \* electric shaver (an electric hint and a razor keyword)
      <<"u66FF","u5203">>,  \* replacement blade (a disposable-blade hint)
      <<"u30C9","u30E9","u30A4","u30E4","u30FC">>,  \* dryer (an appliance keyword)
      <<" ","5","0","m","l">>,  \* no keyword
      <<"u65E5","u713C","u3051","u6B62","u3081">>,  \* sunscreen (UV care)
      <<"u30D5","u30A1","u30F3","u30C7","u30FC","u30B7","u30E7","u30F3">>,  \* foundation (base make-up)
      <<"u53E3","u7D05">>,  \* lipstick (point make-up)
      <<"u30B7","u30E3","u30F3","u30D7","u30FC">>,  \* shampoo (hair care, a key of the default map)
      <<"u30CD","u30A4","u30EB">>,  \* nail
      <<"u9999","u6C34">>,  \* perfume (fragrance)
      <<"u30DC","u30C7","u30A3","u30AF","u30EA","u30FC","u30E0">>,  \* body cream (body care; cream is a skin-care keyword)
      <<"u5316","u7CA7","u6C34">>   \* lotion (skin care)
    }

RECURSIVE Concat(_)
Concat(parts) == IF parts = <<>> THEN <<>> ELSE Head(parts) \o Concat(Tail(parts))

Titles == { Concat(parts) : parts \in [1..MaxTitleParts -> TitleParts] }

\* manual maps: none, the default one, and one with an empty key followed by
\* two keys that can occur in the same title ("dha" and the razor keyword)
CategoryMaps ==
    { <<>>,
      DEFAULT_SETTINGS.categoryMap,
      << [key |-> <<>>, cat |-> 100000001],
         [key |-> <<"d","h","a">>, cat |-> 100000002],
         [key |-> <<"u30B7","u30A7","u30FC","u30D0","u30FC">>, cat |-> 100000003] >> }

\* the title arrives as the enrichment title or, without one, as the name
TitleCarriers(t) ==
    { [info |-> << [title |-> t] >>, p |-> [name |-> <<"x">>]],
      [info |-> << [title |-> <<>>] >>, p |-> [name |-> t]],
      [info |-> <<>>, p |-> [name |-> t]] }

RawTitle(a) == IF a.info # <<>> /\ a.info[1].title # <<>> THEN a.info[1].title ELSE a.p.name

InitCat ==
    /\ InitPure("category")
    /\ \/ applied \in { [op |-> "classifyQoo10Category", done |-> FALSE, title |-> t,
                          decision |-> [main |-> <<>>, beautySecondSubCat |-> <<>>]] :
                            t \in Titles }
       \/ applied \in { [op |-> "chooseCategory", done |-> FALSE, info |-> c.info, p |-> c.p,
                          s |-> [DEFAULT_SETTINGS EXCEPT !.categoryMap = m,
                                                         !.autoCategoryEnabled = auto],
                          value |-> <<>>] :
                            c \in UNION { TitleCarriers(t) : t \in Titles },
                            m \in CategoryMaps, auto \in BOOLEAN }

CallClassifyQoo10Category ==
    /\ pc = "category"
    /\ applied.op = "classifyQoo10Category"
    /\ ~applied.done
    /\ applied' = [applied EXCEPT !.decision = classifyQoo10Category(applied.title),
                                   !.done = TRUE]
    /\ PureUnchanged

CallChooseCategory ==
    /\ pc = "category"
    /\ applied.op = "chooseCategory"
    /\ ~applied.done
    /\ applied' = [applied EXCEPT !.value = chooseCategory(applied.info, applied.p, applied.s),
                                   !.done = TRUE]
    /\ PureUnchanged

NextCat ==
    \/ CallClassifyQoo10Category
    \/ CallChooseCategory

SpecCat == InitCat /\ [][NextCat]_vars

(***************************************************************************)
(* parseAsinCsv on its own: any text of a few cells                        *)
(***************************************************************************)
\* the header word, a quoted identifier, the same identifier in lower case,
\* an identifier of 11 characters, and a second identifier in single quotes
\* with blanks around and inside the quotes
CsvCells ==
    { <<"a","s","i","n">>,
      <<"\"","B","0","0","T","E","S","T","0","0","1","\"">>,
      <<"b","0","0","t","e","s","t","0","0","1">>,
      <<"b","0","0","t","e","s","t","0","0","0","1">>,
      <<" ","'","A","1","B","2","C","3","D","4","E","5"," ","'"," ">> }

\* what stands between two cells: a column separator or a line break
CsvDelims == { ",", "\n" }

RECURSIVE Interleave(_, _)
Interleave(cells, delims) ==
    IF Len(cells) = 1 THEN cells[1]
    ELSE cells[1] \o <<delims[1]>> \o Interleave(Tail(cells), Tail(delims))

InitCsv ==
    /\ InitPure("csv")
    /\ applied \in UNION { { [op |-> "parseAsinCsv", done |-> FALSE, cells |-> c, delims |-> d,
                               text |-> Interleave(c, d), value |-> <<>>] :
                                 c \in [1..n -> CsvCells], d \in [1..(n - 1) -> CsvDelims] } :
                             n \in 1..MaxCells }

CallParseAsinCsv ==
    /\ pc = "csv"
    /\ ~applied.done
    /\ applied' = [applied EXCEPT !.value = parseAsinCsv(applied.text), !.done = TRUE]
    /\ PureUnchanged

NextCsv == CallParseAsinCsv

SpecCsv == InitCsv /\ [][NextCsv]_vars

(***************************************************************************)
(* runListing with the default settings and the one-candidate catalogue of *)
(* the end-to-end scenario                                                 *)
(***************************************************************************)
InitDefault == InitFrom({DEFAULT_SETTINGS}, {<<Product3>>}, {{}})

SpecDefault == InitDefault /\ [][Next]_vars

(***************************************************************************)
(* runListing while the settings change: the settings editor and the       *)
(* settings sync of the mount effect                                       *)
(***************************************************************************)
\* every change goes through setSettings(s => ...) and re-renders; the effect
\* on [settings] then stores the value (localStorage, saveSettings), which
\* changes nothing of the state
SetSettings(next) ==
    /\ settings' = next
    /\ UNCHANGED <<products, selected, loading, listingResults, view, apiCall,
                   applied, rerendered, second>>
    /\ UNCHANGED runVars

\* the "prime only" checkbox of the settings page
TogglePrimeOnly ==
    /\ SetSettings([settings EXCEPT !.primeOnly = ~settings.primeOnly])
    /\ UNCHANGED syncPending

\* the tag lists the editor of the identifier deny-list can hold
NoListASINsSet == { <<>>, <<Asin1>> }

\* the TagEditor of the identifier deny-list
ChangeNoListASINs ==
    /\ \E tags \in NoListASINsSet \ {settings.noListASINs} :
         SetSettings([settings EXCEPT !.noListASINs = tags])
    /\ UNCHANGED syncPending

\* { ...cur, ...remote }
Merge(cur, remote) ==
    [f \in DOMAIN cur |-> IF f \in DOMAIN remote THEN remote[f] ELSE cur[f]]

\* the settings objects the server can hold
RemoteSettings ==
    { [primeOnly |-> FALSE],
      [noListASINs |-> <<Asin1>>] }

\* the fetchSettings call of the mount effect resolves
SyncSettings ==
    /\ "settings" \in syncPending
    /\ syncPending' = syncPending \ {"settings"}
    /\ \E t \in Transports({Object(r) : r \in RemoteSettings} \cup {ErrorObject, JsonNull}) :
         LET remote == fetchSettings(t).value IN
         SetSettings(IF remote.kind = "object" /\ remote.items # <<>>
                     THEN Merge(settings, remote.items[1])
                     ELSE settings)

NextEdit ==
    \/ Next
    \/ TogglePrimeOnly
    \/ ChangeNoListASINs
    \/ SyncSettings

InitEdit == InitFrom({DEFAULT_SETTINGS}, {<<Product1>>}, {{"settings"}})

SpecEdit == InitEdit /\ [][NextEdit]_vars

(***************************************************************************)
(* A further runListing invocation while a run is suspended                *)
(***************************************************************************)
\* The run has called setLoading(true) and is suspended at its first await;
\* React now commits the render that this update asked for: the button gets
\* disabled = true and a runListing closure whose loading constant is true.
Rerender ==
    /\ pc # "idle"
    /\ ~rerendered
    /\ rerendered' = TRUE
    /\ UNCHANGED <<settings, products, selected, loading, listingResults, view,
                   apiCall, applied, syncPending, second>>
    /\ UNCHANGED runVars

\* loading as read by "if (loading) return": the constant of the render that
\* created the closure the button holds
LoadingRead == IF rerendered THEN loading ELSE FALSE

\* runListing is invoked once more while the run is suspended, up to its
\* return or to its first await. Past the guard it calls setLoading(true) and
\* setListingResults(null), which the run has done already, and, the
\* candidates being those of the run, issues both reads.
RunListingAgain ==
    /\ pc # "idle"
    /\ second = "none"
    /\ IF LoadingRead
       THEN second' = "returned"
       ELSE /\ TargetsOf(products, selected) # <<>>
            /\ second' = "awaitReads"
    /\ loading' = (IF LoadingRead THEN loading ELSE TRUE)
    /\ listingResults' = (IF LoadingRead THEN listingResults ELSE Null)
    /\ view' = ListingResultInline(listingResults')
    /\ UNCHANGED <<settings, products, selected, apiCall, applied, syncPending,
                   rerendered>>
    /\ UNCHANGED runVars

NextClicks ==
    \/ Next
    \/ Rerender
    \/ RunListingAgain

InitClicks == InitFrom({DEFAULT_SETTINGS}, {<<Product1>>}, {{}})

SpecClicks == InitClicks /\ [][NextClicks]_vars

(***************************************************************************)
(* The product list: deletion, CSV import, refresh and item sync           *)
(***************************************************************************)
\* an identifier as a searchable string
AsinChars(a) ==
    CASE a = Asin1 -> <<"B","0","0","0","0","0","0","0","0","1">>
      [] a = Asin2 -> <<"B","0","0","0","0","0","0","0","0","2">>
      [] a = Asin3 -> <<"B","0","0","T","E","S","T","0","0","0","1">>
      [] OTHER -> <<>>

\* the lower-case spelling of Asin2, as an enrichment answer can carry it
Asin2Lower == "b000000002"

\* String.prototype.toUpperCase on an identifier
UpperAsin(a) == IF a = Asin2Lower THEN Asin2 ELSE a

\* items.filter(r => r.asin).map((r, idx) => ({ id: idx + 1, ... }))
mapItemsToProducts(items) ==
    LET named == SelectSeq(items, LAMBDA r : r.asin # "")
    IN [i \in 1..Len(named) |->
          [id |-> i, asin |-> named[i].asin, jan |-> "",
           name |-> IF named[i].name # <<>> THEN named[i].name ELSE AsinChars(named[i].asin)]]

\* settings.keepASINsOnDelete.includes(p.asin), with the keep-list ignored
Kept_Never(p, s) == FALSE

\* settings.keepASINsOnDelete.includes(p.asin)
Kept(p, s) == Has(s.keepASINsOnDelete, p.asin)

ListUnchanged ==
    /\ UNCHANGED <<settings, loading, apiCall, applied, rerendered, second>>
    /\ UNCHANGED runVars

\* deleteSelected, confirmed in the dialog
DeleteSelected ==
    /\ selected # {}
    /\ products' = SelectSeq(products, LAMBDA p : p.id \notin selected \/ Kept(p, settings))
    /\ selected' = {}
    /\ UNCHANGED <<listingResults, view, syncPending>>
    /\ ListUnchanged

\* deleteAll, confirmed in the dialog
DeleteAll ==
    /\ products # <<>>
    /\ products' = SelectSeq(products, LAMBDA p : Kept(p, settings))
    /\ selected' = {}
    /\ UNCHANGED <<listingResults, view, syncPending>>
    /\ ListUnchanged

MaxId(prods) ==
    IF prods = <<>> THEN 0
    ELSE CHOOSE m \in { prods[i].id : i \in 1..Len(prods) } :
             \A i \in 1..Len(prods) : prods[i].id <= m

\* the updater of handleCsvUpload: every answered identifier not yet listed
\* is appended under the next free id
RECURSIVE AppendNew(_, _)
AppendNew(prods, infos) ==
    IF infos = <<>> THEN prods
    ELSE LET info == Head(infos)
             asin == UpperAsin(info.asin)
         IN IF asin = "" \/ \E i \in 1..Len(prods) : prods[i].asin = asin
            THEN AppendNew(prods, Tail(infos))
            ELSE AppendNew(Append(prods,
                              [id |-> MaxId(prods) + 1, asin |-> asin, jan |-> "",
                               name |-> IF info.title # <<>> THEN info.title
                                        ELSE AsinChars(asin)]),
                           Tail(infos))

\* what parseAsinCsv hands to the import, and what the enrichment answers
CsvAsins == { <<Asin2>>, <<Asin3, Asin2>> }

CsvInfos(v) ==
    { <<>>,
      << Info(Asin2Lower, v) >>,
      << Info(Asin3, SunscreenInfo(<<>>)), Info("", v), Info(Asin2, v) >> }

\* handleCsvUpload from the chosen file to the update of the list; an answer
\* that is no list makes the updater throw while React renders
HandleCsvUpload ==
    /\ \E asins \in CsvAsins, v \in InfoVariants :
         \E t \in Transports({ List(l) : l \in CsvInfos(v) }) :
            /\ products' = AppendNew(products, fetchAmazonBulk(asins, t).value.items)
            /\ MaxId(products') <= MaxProductId
    /\ UNCHANGED <<selected, listingResults, view, syncPending>>
    /\ ListUnchanged

\* remote && remote.length
Usable(remote) == remote.kind = "list" /\ remote.items # <<>>

\* handleRefreshItems from the click to its end: the refresh trigger, whose
\* outcome and failure are both dropped (.catch(() => {})), then the item list
HandleRefreshItems ==
    /\ \E t \in Transports({ List(l) : l \in ItemLists } \cup {JsonNull, ErrorObject}) :
         LET remote == fetchItems(t).value IN
         IF ~Usable(remote)
         THEN UNCHANGED <<products, listingResults, view>>
         ELSE /\ products' = mapItemsToProducts(remote.items)
              /\ listingResults' = Null
              /\ view' = ListingResultInline(Null)
    /\ UNCHANGED <<selected, syncPending>>
    /\ ListUnchanged

\* the fetchItems call of the mount effect resolves
SyncItems ==
    /\ "items" \in syncPending
    /\ syncPending' = syncPending \ {"items"}
    /\ \E t \in Transports({ List(l) : l \in ItemLists } \cup {JsonNull, ErrorObject}) :
         LET remote == fetchItems(t).value IN
         products' = IF Usable(remote) THEN mapItemsToProducts(remote.items) ELSE products
    /\ UNCHANGED <<selected, listingResults, view>>
    /\ ListUnchanged

NextList ==
    \/ ToggleSelect
    \/ DeleteSelected
    \/ DeleteAll
    \/ HandleCsvUpload
    \/ HandleRefreshItems
    \/ SyncItems

\* the keep-lists a user can have configured
KeepLists == { <<>>, <<Asin2>> }

InitList ==
    InitFrom({ [DEFAULT_SETTINGS EXCEPT !.keepASINsOnDelete = k] : k \in KeepLists },
             ProductLists, {{"items"}})

SpecList == InitList /\ [][NextList]_vars

(***************************************************************************)
(* runListing under a word deny-list that the stored names do not hit      *)
(***************************************************************************)
\* deny-lists whose words occur in no stored name: "a" occurs in the sampled
\* enrichment title, "a b" only in that title once stripWords has run
QuietWordLists == { << <<"x">>, <<"a">> >>, << <<"a"," ","b">> >> }

InitWords ==
    InitFrom({ [DEFAULT_SETTINGS EXCEPT !.noListWords = w] : w \in QuietWordLists },
             { <<Product2>> }, {{}})

SpecWords == InitWords /\ [][Next]_vars

(***************************************************************************)
(* runListing when every call that is issued is answered                   *)
(***************************************************************************)
\* the empty list (a run without targets) and the one-candidate catalogue
InitLive == InitFrom({DEFAULT_SETTINGS}, { <<>>, <<Product3>> }, {{}})

\* the continuation of Promise.all can run: both reads have settled
LoopReady == pc = "awaitReads" /\ ReadsSettled

\* each awaited call settles (fetch resolves or rejects), and the event loop
\* then runs the continuation of the run. EvaluateRules is enabled exactly
\* when LoopReady holds and is the only step that ends LoopReady, so its weak
\* fairness is written []<>~LoopReady.
SpecLive ==
    /\ InitLive
    /\ [][Next]_vars
    /\ WF_vars(FetchAmazonBulkDone)
    /\ WF_vars(CheckQoo10ExistingDone)
    /\ []<>~LoopReady
    /\ WF_vars(CreateQoo10ListingsDone)

(***************************************************************************)
(* Properties                                                              *)
(***************************************************************************)
\* the rule loop of the current (or last) run has run to its end
LoopRan == evalReads # {} /\ ~ReadsThrow

\* a run has finished by reporting its results (not through the catch block)
RunReported == pc = "idle" /\ ~listingResults.isNull /\ ~caught

CountAsin(items, asin) == Cardinality({ i \in 1..Len(items) : items[i].asin = asin })

CountFinal(items, asin) ==
    Cardinality({ i \in 1..Len(items) :
                    items[i].asin = asin /\ items[i].status \in {"success", "error"} })

\* C1: when a listing run finishes, the reported outcome list holds exactly one
\* outcome for every target identifier of the run, and every submitted payload
\* has exactly one success or error outcome, whatever the creation answer was.
C1_OneOutcomePerTarget ==
    RunReported =>
        /\ \A i \in 1..Len(targets) : CountAsin(listingResults.items, targets[i].asin) = 1
        /\ \A i \in 1..Len(payloads) : CountFinal(listingResults.items, payloads[i].asin) = 1

(***************************************************************************)
(* The fixed check sequence, stated on its own                             *)
(***************************************************************************)
CheckOrder ==
    <<"availability", "shipping", "seller", "denyAsin", "denyWord", "existing",
      "transformation">>

\* the enrichment entries received for a candidate
EntriesOf(p) == { amazonInfos.items[i] : i \in { j \in 1..Len(amazonInfos.items) :
                                                    amazonInfos.items[j].asin = p.asin } }

HasUsablePrice(p) == \E e \in EntriesOf(p) : e.price # <<>> /\ e.price[1] # 0

IsSubstring(w, str) ==
    w = <<>> \/ \E i \in 1..Len(str), j \in 1..Len(str) : SubSeq(str, i, j) = w

\* candidate p fails the named check, looked at in isolation
FailsCheck(c, p) ==
    CASE c = "availability" -> ~HasUsablePrice(p)
      [] c = "shipping" ->
            /\ rsettings.primeOnly
            /\ \E e \in EntriesOf(p) :
                 \/ e.isPrime = "false"
                 \/ \E d \in 0..9 : e.shipDays = <<d>> /\ d > rsettings.primeShipDaysMax
      [] c = "seller" ->
            \E e \in EntriesOf(p) : e.sellerCount \in { <<n>> : n \in {0, 1} }
      [] c = "denyAsin" ->
            \E i \in 1..Len(rsettings.noListASINs) : rsettings.noListASINs[i] = p.asin
      [] c = "denyWord" ->
            \E i \in 1..Len(rsettings.noListWords) :
                 /\ rsettings.noListWords[i] # <<>>
                 /\ IsSubstring(rsettings.noListWords[i], p.name)
      [] c = "existing" ->
            \E i \in 1..Len(existingAsins.items) : existingAsins.items[i] = p.asin
      [] c = "transformation" ->
            \E e \in EntriesOf(p) : e.price # <<>> /\ applyRule(e.price, rsettings.rules) <= 0

\* position in CheckOrder of the first check p fails, 0 when it passes all
FirstFailing(p) ==
    LET failing == { k \in 1..Len(CheckOrder) : FailsCheck(CheckOrder[k], p) }
    IN IF failing = {} THEN 0 ELSE CHOOSE k \in failing : \A m \in failing : k <= m

StatusOfCheck(c) ==
    CASE c \in {"availability", "transformation"} -> "error"
      [] c \in {"shipping", "seller", "denyAsin", "denyWord"} -> "forbidden"
      [] c = "existing" -> "exists"

TextOfCheck(c) ==
    CASE c = "availability" -> "amazon price unavailable"
      [] c = "shipping" -> "prime condition not met"
      [] c = "seller" -> "single seller"
      [] c = "denyAsin" -> "no-list asin"
      [] c = "denyWord" -> "no-list word"
      [] c = "existing" -> "already on qoo10"
      [] c = "transformation" -> "price after rules invalid"

\* the targets that fail some check, in input order
RejectedTargets == SelectSeq(targets, LAMBDA p : FirstFailing(p) # 0)

PassingTargets == SelectSeq(targets, LAMBDA p : FirstFailing(p) = 0)

\* C2: every candidate gets the outcome of the first check it fails in the fixed
\* sequence availability, shipping, seller, identifier deny-list, word
\* deny-list, existing, transformation; rejections appear in input order and
\* exactly the candidates that fail nothing become payloads.
C2_FirstFailingCheckWins ==
    LoopRan =>
        /\ Len(results) >= Len(RejectedTargets)
        /\ \A i \in 1..Len(RejectedTargets) :
             LET p == RejectedTargets[i]
                 c == CheckOrder[FirstFailing(p)]
             IN /\ results[i].asin = p.asin
                /\ results[i].status = StatusOfCheck(c)
                /\ results[i].message[1] = TextOfCheck(c)
        /\ AsinsOf(payloads) = AsinsOf(PassingTargets)

\* a candidate that is deny-listed and already on the destination was reported
\* as forbidden by the identifier deny-list
W_C2_DenyListedAndExisting ==
    /\ LoopRan
    /\ \E i \in 1..Len(targets) :
         /\ FailsCheck("denyAsin", targets[i])
         /\ FailsCheck("existing", targets[i])
         /\ FirstFailing(targets[i]) = 4
         /\ \E k \in 1..Len(results) :
              /\ results[k].asin = targets[i].asin
              /\ results[k].status = "forbidden"
              /\ results[k].message[1] = "no-list asin"

\* C3: when the existing-listing call of a run fails, no candidate that
\* reaches the existing-listing step becomes a payload or is submitted; the
\* failure shows as error outcomes of those candidates.
C3_ExistenceFailureBlocksSubmission ==
    (existFailed /\ LoopRan) =>
        /\ payloads = <<>>
        /\ createCalls = 0
        /\ \A i \in 1..Len(targets) :
             (\A k \in 1..5 : ~FailsCheck(CheckOrder[k], targets[i])) =>
                 \E j \in 1..Len(results) :
                     results[j].asin = targets[i].asin /\ results[j].status = "error"

\* C4: a failure inside a run is caught and reported as a synthetic error
\* outcome, and the outcomes already determined for the other candidates of
\* the run are still reported.
C4_FailureKeepsDeterminedOutcomes ==
    caught =>
        /\ pc = "idle"
        /\ ~loading
        /\ ~listingResults.isNull
        /\ Has(listingResults.items, SyntheticError)
        /\ \A i \in 1..Len(results) : Has(listingResults.items, results[i])

\* C5: the creation call is issued at most once per run, only after both the
\* enrichment fetch and the existing-listing check have resolved and only with
\* at least one payload; the rule loop never runs before both reads resolved.
C5_CreateAfterBothReads ==
    /\ createCalls <= 1
    /\ evalReads # {} => evalReads = {"amazon", "existing"}
    /\ (results # <<>> \/ payloads # <<>>) => (amazonDone /\ existDone)
    /\ createCalls > 0 => (evalReads = {"amazon", "existing"} /\ payloads # <<>>)
    /\ pc = "awaitCreate" => createCalls = 1
    /\ (pc = "idle" /\ payloads = <<>>) => createCalls = 0

\* the creation call of a run is in flight, issued after both reads
W_C5_CreateInFlight ==
    /\ pc = "awaitCreate"
    /\ createCalls = 1
    /\ amazonDone /\ existDone
    /\ Len(payloads) = 2

\* C7: whatever the settings, a candidate whose source data has a seller count
\* of 1 or less and that passes every other check ends forbidden by the seller
\* rule and yields no payload; an unknown seller count is never rejected by it.
C7_SingleSellerAlwaysForbidden ==
    LoopRan =>
        \A i \in 1..Len(targets) :
            LET p == targets[i]
                known == \E e \in EntriesOf(p) : e.sellerCount # <<>>
                single == \E e \in EntriesOf(p) : e.sellerCount # <<>> /\ e.sellerCount[1] <= 1
                othersPass == \A k \in 1..Len(CheckOrder) :
                                  CheckOrder[k] # "seller" => ~FailsCheck(CheckOrder[k], p)
                bySeller == \E j \in 1..Len(results) :
                                /\ results[j].asin = p.asin
                                /\ results[j].message[1] = "single seller"
            IN /\ (single /\ othersPass) =>
                    /\ \E j \in 1..Len(results) :
                          /\ results[j].asin = p.asin
                          /\ results[j].status = "forbidden"
                          /\ results[j].message[1] = "single seller"
                    /\ ~Has(AsinsOf(payloads), p.asin)
                    /\ RunReported =>
                          \E j \in 1..Len(listingResults.items) :
                              /\ listingResults.items[j].asin = p.asin
                              /\ listingResults.items[j].status = "forbidden"
                              /\ listingResults.items[j].message[1] = "single seller"
               /\ ~known => ~bySeller

\* with prime-only enabled, a candidate with exactly one
\* seller that passes every other check was reported forbidden by the seller rule
W_C7_SingleSellerRejected ==
    /\ LoopRan
    /\ rsettings.primeOnly
    /\ \E i \in 1..Len(targets) :
         /\ \E e \in EntriesOf(targets[i]) : e.sellerCount = <<1>>
         /\ \A k \in 1..Len(CheckOrder) :
              CheckOrder[k] # "seller" => ~FailsCheck(CheckOrder[k], targets[i])
         /\ \E j \in 1..Len(results) :
              /\ results[j].asin = targets[i].asin
              /\ results[j].status = "forbidden"
              /\ results[j].message[1] = "single seller"

\* the configured non-empty words occurring in name, in configured order
DeniedWordsIn(name, cfg) ==
    LET idx == { i \in 1..Len(cfg) : cfg[i] # <<>> /\ IsSubstring(cfg[i], name) }
    IN [k \in 1..Cardinality(idx) |->
           cfg[CHOOSE i \in idx : Cardinality({ j \in idx : j < i }) = k - 1]]

\* C8: an outcome of the word deny-list carries every configured non-empty
\* forbidden word that occurs in the candidate's display name, in configured
\* order.
C8_AllDeniedWordsReported ==
    LoopRan =>
        \A j \in 1..Len(results) :
            results[j].message[1] = "no-list word" =>
                /\ results[j].status = "forbidden"
                /\ \E i \in 1..Len(targets) :
                     /\ targets[i].asin = results[j].asin
                     /\ results[j].name = targets[i].name
                /\ results[j].hitWords = DeniedWordsIn(results[j].name, rsettings.noListWords)

\* a name holding two denied words was rejected with a matched-word list of length 2
W_C8_TwoWordsMatched ==
    /\ LoopRan
    /\ \E j \in 1..Len(results) :
         /\ results[j].message[1] = "no-list word"
         /\ Len(results[j].hitWords) = 2
         /\ results[j].hitWords[1] # results[j].hitWords[2]

\* C6: no wrapper lets a transport failure out: on failure the read wrappers
\* return an empty list, fetchSettings returns null, the save and refresh
\* wrappers return normally, and createQoo10Listings returns one ok=false
\* result per submitted payload, same identifiers, same order, so that every
\* submitted item gets one error outcome.
C6_WrappersAbsorbTransportFailure ==
    apiCall.op # "none" =>
        /\ ~apiCall.threw
        /\ apiCall.failed =>
             CASE apiCall.op \in {"fetchAmazonBulk", "checkQoo10Existing", "fetchItems"} ->
                    apiCall.value = List(<<>>)
               [] apiCall.op = "fetchSettings" -> apiCall.value = JsonNull
               [] apiCall.op \in {"saveSettings", "saveItems", "refreshItems"} ->
                    apiCall.value = Undefined
               [] apiCall.op = "createQoo10Listings" ->
                    /\ apiCall.value.kind = "list"
                    /\ Len(apiCall.value.items) = Len(apiCall.sent)
                    /\ \A i \in 1..Len(apiCall.sent) :
                         /\ apiCall.value.items[i].asin = apiCall.sent[i].asin
                         /\ ~apiCall.value.items[i].ok
                    /\ Len(apiCall.outcomes) = Len(apiCall.sent)
                    /\ \A i \in 1..Len(apiCall.sent) :
                         /\ apiCall.outcomes[i].asin = apiCall.sent[i].asin
                         /\ apiCall.outcomes[i].status = "error"

\* a creation call with two payloads failed in transport and each payload
\* got its error outcome
W_C6_CreateFailedTwoPayloads ==
    /\ apiCall.op = "createQoo10Listings"
    /\ apiCall.failed
    /\ Len(apiCall.sent) = 2
    /\ Len(apiCall.outcomes) = 2
    /\ apiCall.outcomes[1].status = "error"

\* b holds items of it in the order they have in it
RECURSIVE IsSubsequence(_, _)
IsSubsequence(b, it) ==
    IF b = <<>> THEN TRUE
    ELSE IF it = <<>> THEN FALSE
    ELSE IF Head(b) = Head(it) THEN IsSubsequence(Tail(b), Tail(it))
    ELSE IsSubsequence(b, Tail(it))

BucketNames == {"exists", "forbidden", "error", "success"}

\* C9: the four buckets partition the outcome list: every outcome is in exactly
\* one bucket, the sizes add up to the input length and each bucket keeps the
\* input order (an empty list renders nothing).
C9_BucketsPartitionOutcomes ==
    pc = "aggregated" =>
        LET it == listingResults.items IN
        IF ~view.rendered THEN Len(it) = 0
        ELSE /\ Len(view.exists) + Len(view.forbidden) + Len(view.error)
                  + Len(view.success) = Len(it)
             /\ \A i \in 1..Len(it) :
                  Cardinality({ b \in BucketNames : Has(view[b], it[i]) }) = 1
             /\ \A b \in BucketNames :
                  /\ IsSubsequence(view[b], it)
                  /\ \A k \in 1..Len(view[b]) : view[b][k].status = b

\* a list error, success, error was split into an error bucket of two and a
\* success bucket of one
W_C9_MixedListSplit ==
    /\ pc = "aggregated"
    /\ view.rendered
    /\ Len(listingResults.items) = 3
    /\ listingResults.items[1].status = "error"
    /\ listingResults.items[2].status = "success"
    /\ listingResults.items[1].asin # listingResults.items[3].asin
    /\ Len(view.error) = 2
    /\ Len(view.success) = 1

\* C10: aggregating the empty outcome list of a run without targets yields
\* four empty buckets and differs from what is shown when no run was made.
C10_EmptyRunDistinctFromNoRun ==
    (pc = "idle" /\ ~listingResults.isNull /\ listingResults.items = <<>>) =>
        /\ view.rendered
        /\ \A b \in BucketNames : view[b] = <<>>
        /\ view # ListingResultInline(Null)

(***************************************************************************)
(* The price transform                                                     *)
(***************************************************************************)
\* the integer nearest to n/d (d > 0), the upper one of two equally near
Nearest(n, d) ==
    CHOOSE k \in ((n \div d) - 1)..((n \div d) + 1) :
        2 * d * k - d <= 2 * n /\ 2 * n < 2 * d * k + d

\* C11: applyRule gives 0 for an absent or non-positive price; otherwise the
\* first rule in list order whose band holds the price gives
\* max(1, round(price * multiply + plus)), and the price itself (at least 1) is
\* returned when no band holds it. Under the single rule 1..3000 x1.2 +400,
\* 3000 gives 4000 and 3001 gives 3001.
C11_ApplyRuleIsReference ==
    (applied.op = "applyRule" /\ applied.done) =>
        LET rules == applied.rules
            holds(i, p) == rules[i].min <= p /\ (rules[i].max = <<>> \/ p <= rules[i].max[1])
        IN /\ (applied.price = <<>> \/ applied.price[1] <= 0) => applied.value = 0
           /\ (applied.price # <<>> /\ applied.price[1] > 0) =>
                LET p == applied.price[1]
                    matching == { i \in 1..Len(rules) : holds(i, p) }
                IN IF matching = {}
                   THEN applied.value = p
                   ELSE LET r == rules[CHOOSE i \in matching : \A j \in matching : i <= j]
                            exact == Nearest(p * r.mulNum + r.plus * r.mulDen, r.mulDen)
                        IN applied.value = (IF exact < 1 THEN 1 ELSE exact)
           /\ (rules = <<DEFAULT_SETTINGS.rules[1]>> /\ applied.price = <<3000>>) =>
                applied.value = 4000
           /\ (rules = <<DEFAULT_SETTINGS.rules[1]>> /\ applied.price = <<3001>>) =>
                applied.value = 3001

\* the price 3000 lies in the band 1..3000 and in the band 2000..4000 listed
\* after it, and was transformed by the earlier rule
W_C11_UpperEndEarliestRuleWins ==
    /\ applied.op = "applyRule"
    /\ applied.done
    /\ applied.price = <<3000>>
    /\ Len(applied.rules) = 2
    /\ applied.rules[1] = DEFAULT_SETTINGS.rules[1]
    /\ applied.rules[2].min = 2000
    /\ applied.value = 4000

(***************************************************************************)
(* Categories                                                              *)
(***************************************************************************)
\* some keyword of the list occurs in the title
HasKeyword(keywords, title) ==
    \E i \in 1..Len(keywords) : IsSubstring(keywords[i], title)

\* two characters are the same letter in either case, or the same character
SameLetter(a, b) ==
    \/ a = b
    \/ \E k \in 1..Len(UpperLetters) :
          {a, b} = {UpperLetters[k], LowerLetters[k]}

\* the word occurs in the title when letter case is ignored
OccursIgnoringCase(w, title) ==
    \E start \in 0..(Len(title) - Len(w)) :
        \A k \in 1..Len(w) : SameLetter(w[k], title[start + k])

\* the entries of the manual map with a non-empty key occurring in the title
ManualHits(a) ==
    { i \in 1..Len(a.s.categoryMap) :
        /\ a.s.categoryMap[i].key # <<>>
        /\ OccursIgnoringCase(a.s.categoryMap[i].key, RawTitle(a)) }

\* C12: a title holding a supplement keyword and a razor keyword is classified
\* as supplement (130000) by the main cascade, with or without electric hints
\* and appliance keywords, and carries no beauty sub-code.
C12_SupplementBeatsRazor ==
    ( /\ applied.op = "classifyQoo10Category"
      /\ applied.done
      /\ HasKeyword(SUPPLEMENT_KEYWORDS, applied.title)
      /\ HasKeyword(RAZOR_KEYWORDS, applied.title) ) =>
        /\ Number(applied.decision.main) = 130000
        /\ applied.decision.beautySecondSubCat = <<>>

\* a title with a supplement keyword, a razor keyword and an electric hint was
\* classified as supplement
W_C12_SupplementElectricShaver ==
    /\ applied.op = "classifyQoo10Category"
    /\ applied.done
    /\ HasKeyword(SUPPLEMENT_KEYWORDS, applied.title)
    /\ HasKeyword(RAZOR_KEYWORDS, applied.title)
    /\ HasKeyword(ELECTRIC_HINTS, applied.title)
    /\ Number(applied.decision.main) = 130000

\* C13: when the title holds, in any letter case, a non-empty keyword of the
\* manual map, chooseCategory returns the code of the first such entry in the
\* stored order of the map, whatever the classifier would decide and whether
\* automatic classification is enabled or not.
C13_ManualMapFirst ==
    (applied.op = "chooseCategory" /\ applied.done /\ ManualHits(applied) # {}) =>
        LET first == CHOOSE i \in ManualHits(applied) : \A j \in ManualHits(applied) : i <= j
        IN applied.value = <<applied.s.categoryMap[first].cat>>

\* with automatic classification enabled, a title holding DHA in upper case
\* and the razor keyword matched two manual entries (the key dha first) and
\* got the code of the first, although the classifier says supplement
W_C13_ManualBeatsClassifier ==
    /\ applied.op = "chooseCategory"
    /\ applied.done
    /\ applied.s.autoCategoryEnabled
    /\ Cardinality(ManualHits(applied)) = 2
    /\ IsSubstring(<<"D","H","A">>, RawTitle(applied))
    /\ applied.value = <<100000002>>
    /\ Number(classifyQoo10Category(RawTitle(applied)).main) = 130000

\* C14: a title with a razor keyword, an electric hint and a disposable-blade
\* hint, without supplement keyword and without appliance keyword, is
\* classified as daily goods (100000018).
C14_BladeHintDowngradesElectricRazor ==
    ( /\ applied.op = "classifyQoo10Category"
      /\ applied.done
      /\ HasKeyword(RAZOR_KEYWORDS, applied.title)
      /\ HasKeyword(ELECTRIC_HINTS, applied.title)
      /\ HasKeyword(DAILY_RAZOR_HINTS, applied.title)
      /\ ~HasKeyword(SUPPLEMENT_KEYWORDS, applied.title)
      /\ ~HasKeyword(BEAUTY_APPLIANCE_KEYWORDS, applied.title) ) =>
        Number(applied.decision.main) = 100000018

\* the fixed order of the beauty sub-cascade: UV care, base make-up, point
\* make-up, hair care, nail, fragrance, body care, skin care
SubCascade ==
    <<120000017, 120000013, 120000014, 120000020, 120000021, 120000022, 120000018,
      120000012>>

RuleWithCode(c) ==
    BEAUTY_RULES[CHOOSE i \in 1..Len(BEAUTY_RULES) : Number(BEAUTY_RULES[i].code) = c]

\* C15: when no manual keyword matches, chooseCategory returns nothing if
\* automatic classification is disabled; otherwise the number of the main code
\* for a main category other than beauty, and for beauty the code of the
\* earliest rule of the sub-cascade with a keyword anywhere in the title, or
\* skin care (120000012) when none has one. The classifier gives a sub-code
\* exactly when the main category is beauty.
C15_CategoryNumberWithoutManualHit ==
    /\ (applied.op = "chooseCategory" /\ applied.done /\ ManualHits(applied) = {}) =>
          IF ~applied.s.autoCategoryEnabled THEN applied.value = <<>>
          ELSE LET t == RawTitle(applied)
                   main == getMainCategoryCode(t)
                   rules == { k \in 1..Len(SubCascade) :
                                HasKeyword(RuleWithCode(SubCascade[k]).keywords, t) }
               IN IF main = <<"1","3","0","0","0","0">> THEN applied.value = <<130000>>
                  ELSE IF main = <<"1","2","0","0","0","0","0","3","3">>
                  THEN applied.value = <<120000033>>
                  ELSE IF main = <<"1","0","0","0","0","0","0","1","8">>
                  THEN applied.value = <<100000018>>
                  ELSE IF rules = {} THEN applied.value = <<120000012>>
                  ELSE applied.value =
                         <<SubCascade[CHOOSE k \in rules : \A m \in rules : k <= m]>>
    /\ (applied.op = "classifyQoo10Category" /\ applied.done) =>
          (applied.decision.beautySecondSubCat # <<>>
             <=> applied.decision.main = <<"1","2","0","0","0","0">>)

\* without manual hit, a title naming perfume before sunscreen got the UV-care
\* code, the earlier rule of the sub-cascade
W_C15_EarlierRuleLaterInTitle ==
    /\ applied.op = "chooseCategory"
    /\ applied.done
    /\ ManualHits(applied) = {}
    /\ applied.s.autoCategoryEnabled
    /\ RawTitle(applied) = <<"u9999","u6C34">> \o <<"u65E5","u713C","u3051","u6B62","u3081">>
    /\ applied.value = <<120000017>>

(***************************************************************************)
(* The identifier import                                                   *)
(***************************************************************************)
\* the rows of cells a text was made of
RECURSIVE CsvRows(_, _)
CsvRows(cells, delims) ==
    IF Len(cells) = 1 THEN << <<cells[1]>> >>
    ELSE LET rest == CsvRows(Tail(cells), Tail(delims))
         IN IF delims[1] = "\n" THEN << <<cells[1]>> >> \o rest
            ELSE << <<cells[1]>> \o Head(rest) >> \o Tail(rest)

\* the rows that are not blank lines
DataLines(a) ==
    SelectSeq(CsvRows(a.cells, a.delims), LAMBDA r : ~(Len(r) = 1 /\ Trim(r[1]) = <<>>))

\* a cell without the blanks and quotes around it
Bare(c) == Trim(StripQuotes(Trim(c)))

IsHeaderCell(c) == toLowerCase(Bare(c)) = <<"a","s","i","n">>

HasHeader(a) ==
    DataLines(a) # <<>> /\ \E k \in 1..Len(DataLines(a)[1]) : IsHeaderCell(DataLines(a)[1][k])

\* the chosen column, counted from 1
ChosenColumn(a) ==
    LET first == DataLines(a)[1]
    IN IF HasHeader(a)
       THEN CHOOSE k \in 1..Len(first) :
                IsHeaderCell(first[k]) /\ \A m \in 1..(k - 1) : ~IsHeaderCell(first[m])
       ELSE 1

\* the rows identifiers are read from
ReadRows(a) == IF HasHeader(a) THEN Tail(DataLines(a)) ELSE DataLines(a)

LetterOrDigit(ch) ==
    \/ \E k \in 1..Len(UpperLetters) : ch \in {UpperLetters[k], LowerLetters[k]}
    \/ \E d \in 1..Len(DigitChars) : ch = DigitChars[d]

UpperOrDigit(ch) ==
    \/ \E k \in 1..Len(UpperLetters) : ch = UpperLetters[k]
    \/ \E d \in 1..Len(DigitChars) : ch = DigitChars[d]

\* ten letters or digits in any case
ValidCell(c) == Len(c) = 10 /\ \A i \in 1..Len(c) : LetterOrDigit(c[i])

\* the bare cells of the chosen column in the rows read
ColumnCells(a) ==
    LET read == ReadRows(a)
        col == ChosenColumn(a)
    IN { Bare(read[i][col]) : i \in { j \in 1..Len(read) : Len(read[j]) >= col } }

\* C16: the list parseAsinCsv returns has no duplicates; every element is ten
\* upper-case letters or digits and is the upper-cased form of a trimmed,
\* quote-stripped cell of the chosen column; when that column has no valid
\* cell the list is empty.
C16_ImportedIdentifiersNormalised ==
    (applied.op = "parseAsinCsv" /\ applied.done) =>
        LET column == ColumnCells(applied)
        IN /\ \A i, j \in 1..Len(applied.value) :
                applied.value[i] = applied.value[j] => i = j
           /\ \A i \in 1..Len(applied.value) :
                /\ Len(applied.value[i]) = 10
                /\ \A k \in 1..10 : UpperOrDigit(applied.value[i][k])
                /\ \E c \in column : applied.value[i] = toUpperCase(c)
           /\ (\A c \in column : ~ValidCell(c)) => applied.value = <<>>

\* three cells of column 0 held two identifiers, one of them twice in
\* different spellings, and two identifiers were returned
W_C16_SameIdentifierTwice ==
    /\ applied.op = "parseAsinCsv"
    /\ applied.done
    /\ ~HasHeader(applied)
    /\ Len(ReadRows(applied)) = 3
    /\ \A i \in 1..3 : ValidCell(Bare(ReadRows(applied)[i][1]))
    /\ ReadRows(applied)[1][1] # ReadRows(applied)[2][1]
    /\ Bare(ReadRows(applied)[1][1]) # Bare(ReadRows(applied)[2][1])
    /\ toUpperCase(Bare(ReadRows(applied)[1][1])) = toUpperCase(Bare(ReadRows(applied)[2][1]))
    /\ Len(applied.value) = 2

\* the identifiers returned are those of the valid cells of the chosen column:
\* the column of the first header cell asin of the first row, read from the
\* second row on, or column 0 read from the first row on
HeaderRule ==
    { applied.value[i] : i \in 1..Len(applied.value) }
        = { toUpperCase(c) : c \in { d \in ColumnCells(applied) : ValidCell(d) } }

\* C17 as claimed: the texts "asin\nb00test0001" and "b00test0001" both give
\* the one identifier B00TEST0001, and the header rule holds.
C17_HeaderExamplesAsClaimed ==
    (applied.op = "parseAsinCsv" /\ applied.done) =>
        /\ applied.text \in { <<"a","s","i","n">> \o <<"\n">> \o <<"b","0","0","t","e","s","t","0","0","0","1">>, <<"b","0","0","t","e","s","t","0","0","0","1">> } =>
              applied.value = << toUpperCase(<<"b","0","0","t","e","s","t","0","0","0","1">>) >>
        /\ HeaderRule

\* C17 amended: the texts "asin\nb00test001" and "b00test001" (ten
\* characters) both give the one identifier B00TEST001, the same texts with
\* the eleven characters b00test0001 give nothing, and the header rule holds.
C17_HeaderFixesColumn ==
    (applied.op = "parseAsinCsv" /\ applied.done) =>
        /\ applied.text \in { <<"a","s","i","n">> \o <<"\n">> \o <<"b","0","0","t","e","s","t","0","0","1">>, <<"b","0","0","t","e","s","t","0","0","1">> } =>
              applied.value = << toUpperCase(<<"b","0","0","t","e","s","t","0","0","1">>) >>
        /\ applied.text \in { <<"a","s","i","n">> \o <<"\n">> \o <<"b","0","0","t","e","s","t","0","0","0","1">>, <<"b","0","0","t","e","s","t","0","0","0","1">> } =>
              applied.value = <<>>
        /\ HeaderRule

\* the header word stood in the second column of the first row; the second
\* row held a valid identifier in each column and only the one of the second
\* column was returned
W_C17_HeaderInSecondColumn ==
    /\ applied.op = "parseAsinCsv"
    /\ applied.done
    /\ HasHeader(applied)
    /\ ChosenColumn(applied) = 2
    /\ Len(ReadRows(applied)) = 1
    /\ Len(ReadRows(applied)[1]) = 2
    /\ ValidCell(Bare(ReadRows(applied)[1][1]))
    /\ ValidCell(Bare(ReadRows(applied)[1][2]))
    /\ toUpperCase(Bare(ReadRows(applied)[1][1])) # toUpperCase(Bare(ReadRows(applied)[1][2]))
    /\ applied.value = << toUpperCase(Bare(ReadRows(applied)[1][2])) >>

(***************************************************************************)
(* The end-to-end scenario                                                 *)
(***************************************************************************)
UvCareCategory == 120000017

\* the run is the scenario's: default settings, the one candidate, enrichment
\* with price 2500, prime, five sellers and the sunscreen title (a delivery
\* time, when given, within the limit), and an existence answer without it
ScenarioRun ==
    /\ LoopRan
    /\ rsettings = DEFAULT_SETTINGS
    /\ targets = <<Product3>>
    /\ ~existFailed
    /\ ~Has(existingAsins.items, Asin3)
    /\ HitWords(Product3.name, rsettings) = <<>>
    /\ ~Has(rsettings.noListASINs, Asin3)
    /\ LET info == InfoFor(amazonInfos.items, Asin3)
       IN /\ info # <<>>
          /\ info[1].price = <<2500>>
          /\ info[1].isPrime = "true"
          /\ info[1].sellerCount = <<5>>
          /\ info[1].title = <<"u65E5","u713C","u3051","u6B62","u3081"," ","5","0","m","l">>
          /\ \/ info[1].shipDays = <<>>
             \/ info[1].shipDays[1] <= rsettings.primeShipDaysMax

\* C18: end-to-end with the default settings, the candidate B00TEST0001 with
\* source price 2500, prime, five sellers, no deny-list hit, not existing on
\* the destination and the sunscreen title produces exactly one payload, with
\* price 3400 and the UV-care category 120000017, and no rejection; after a
\* creation response that reports it as created its outcome is success.
C18_DefaultSettingsEndToEnd ==
    ScenarioRun =>
        /\ Len(payloads) = 1
        /\ payloads[1].asin = Asin3
        /\ payloads[1].price = 3400
        /\ payloads[1].categoryNo = <<UvCareCategory>>
        /\ (RunReported /\ created.kind = "list") =>
              /\ Len(listingResults.items) = Len(created.items)
              /\ \A i \in 1..Len(created.items) :
                   (created.items[i].asin = Asin3 /\ created.items[i].ok) =>
                       /\ listingResults.items[i].asin = Asin3
                       /\ listingResults.items[i].status = "success"

\* the scenario ran to its end: one creation call, answered with the one
\* created item, and the reported list is the one success outcome
W_C18_ScenarioSucceeded ==
    /\ ScenarioRun
    /\ RunReported
    /\ createCalls = 1
    /\ created.kind = "list"
    /\ Len(created.items) = 1
    /\ created.items[1].asin = Asin3
    /\ created.items[1].ok
    /\ Len(listingResults.items) = 1
    /\ listingResults.items[1].status = "success"
    /\ payloads[1].price = 3400

(***************************************************************************)
(* Settings during a run                                                   *)
(***************************************************************************)
\* C19: settings are an immutable snapshot for the duration of one run: the
\* value a run reads is the settings value current when it started, it stays
\* that value while the run is suspended at an external call whatever the
\* settings editor or the settings sync do meanwhile, and the rule loop
\* evaluates every candidate against it.
C19_SettingsSnapshot ==
    [][ /\ (pc = "idle" /\ pc' # "idle") => rsettings' = settings
        /\ (pc # "idle") => rsettings' = rsettings
        /\ (~LoopRan /\ LoopRan') =>
              LET out == RuleLoop(targets, amazonInfos.items, existingAsins.items, rsettings)
              IN /\ results' = out.results
                 /\ payloads' = out.payloads ]_vars

\* the settings were changed while the run was suspended at its reads, and
\* the rule loop produced a payload that the changed settings would reject
W_C19_ChangedWhileSuspended ==
    /\ LoopRan
    /\ pc = "awaitCreate"
    /\ settings # rsettings
    /\ payloads # <<>>
    /\ RuleLoop(targets, amazonInfos.items, existingAsins.items, settings).payloads = <<>>

(***************************************************************************)
(* Overlapping runs                                                        *)
(***************************************************************************)
\* C20: two listing runs never overlap: a runListing invocation made while a
\* run is suspended at an external call, a second click delivered before the
\* component re-renders included, returns at the guard: it issues no
\* enrichment, existence or creation call and leaves the results alone.
C20_FurtherInvocationReturns ==
    [][ (pc # "idle" /\ second' # second) =>
            /\ second' = "returned"
            /\ listingResults' = listingResults
            /\ loading' = loading ]_vars

(***************************************************************************)
(* The shipping-speed policy                                               *)
(***************************************************************************)
\* the rule loop reported p as rejected for shipping speed
ShippingRejected(p) ==
    \E k \in 1..Len(results) :
        /\ results[k].asin = p.asin
        /\ results[k].status = "forbidden"
        /\ results[k].message[1] = "prime condition not met"

\* the source says "not prime", or gives a delivery time above the maximum
TooSlow(p) ==
    \E e \in EntriesOf(p) :
        \/ e.isPrime = "false"
        \/ e.shipDays # <<>> /\ e.shipDays[1] > rsettings.primeShipDaysMax

\* C21: a candidate that has a usable source price is rejected as forbidden
\* for shipping speed exactly when primeOnly is enabled and the source's
\* isPrime is explicitly false or a known shipDays exceeds primeShipDaysMax;
\* with primeOnly disabled nobody is rejected for shipping speed, and with it
\* enabled a candidate with absent isPrime and absent shipDays passes.
C21_ShippingSpeedPolicy ==
    LoopRan =>
        \A i \in 1..Len(targets) :
            LET p == targets[i] IN
            /\ HasUsablePrice(p) => (ShippingRejected(p) <=> (rsettings.primeOnly /\ TooSlow(p)))
            /\ ~rsettings.primeOnly => ~ShippingRejected(p)
            /\ ( /\ rsettings.primeOnly
                 /\ \E e \in EntriesOf(p) : e.isPrime = "absent" /\ e.shipDays = <<>> )
               => ~ShippingRejected(p)

\* with primeOnly enabled, one candidate was rejected for a delivery time
\* above the maximum although the source calls it prime, and another with
\* neither isPrime nor shipDays went on to become a payload
W_C21_SlowRejectedUnknownPassed ==
    /\ LoopRan
    /\ rsettings.primeOnly
    /\ \E i \in 1..Len(targets), j \in 1..Len(targets) :
         /\ \E e \in EntriesOf(targets[i]) : e.isPrime = "true" /\ e.shipDays # <<>>
         /\ ShippingRejected(targets[i])
         /\ \E e \in EntriesOf(targets[j]) : e.isPrime = "absent" /\ e.shipDays = <<>>
         /\ \E k \in 1..Len(payloads) : payloads[k].asin = targets[j].asin

(***************************************************************************)
(* Deletion and the keep-list                                              *)
(***************************************************************************)
InKeepList(p) ==
    \E k \in 1..Len(settings.keepASINsOnDelete) : settings.keepASINsOnDelete[k] = p.asin

\* the positions of the list that a deletion must leave, in order
Survivors(doomed) ==
    LET stay == { i \in 1..Len(products) : ~doomed[i] \/ InKeepList(products[i]) }
    IN [n \in 1..Cardinality(stay) |->
          products[CHOOSE i \in stay : Cardinality({ j \in stay : j < i }) = n - 1]]

\* C22: a confirmed deleteSelected or deleteAll never removes a product whose
\* ASIN is in keepASINsOnDelete; deleteAll leaves exactly the kept products,
\* deleteSelected removes exactly the selected products that are not kept,
\* and both leave the selection empty.
C22_DeletionRespectsKeepList ==
    [][ /\ DeleteAll =>
              products' = Survivors([i \in 1..Len(products) |-> TRUE])
        /\ DeleteSelected =>
              products' = Survivors([i \in 1..Len(products) |-> products[i].id \in selected])
        /\ (DeleteAll \/ DeleteSelected) =>
              /\ selected' = {}
              /\ \A i \in 1..Len(products) :
                   InKeepList(products[i]) =>
                       \E j \in 1..Len(products') : products'[j] = products[i] ]_vars

\* of the two seed products only the second, which is on the keep-list, is
\* left under its old id, and nothing is selected
W_C22_KeptProductSurvived ==
    /\ products = <<Product2>>
    /\ settings.keepASINsOnDelete = <<Asin2>>
    /\ selected = {}

(***************************************************************************)
(* What a selected id denotes                                              *)
(***************************************************************************)
\* C23: each selected id denotes the product the user ticked: no step that
\* leaves an id selected (tick, CSV import, delete, refresh, item sync) makes
\* it denote a product with another ASIN, so that the targets of a run, which
\* are found through the selected ids, are the products the user selected.
C23_SelectedIdKeepsItsProduct ==
    [][ \A id \in selected \cap selected' :
          \A i \in 1..Len(products), j \in 1..Len(products') :
              (products[i].id = id /\ products'[j].id = id) =>
                  products'[j].asin = products[i].asin ]_vars

(***************************************************************************)
(* Forbidden words and payload titles                                      *)
(***************************************************************************)
\* C24: no payload handed to the listing-creation call has a title that
\* contains a configured forbidden word, also when the enrichment title the
\* payload is built from differs from the stored display name.
C24_NoForbiddenWordInPayloadTitle ==
    createCalls > 0 =>
        \A k \in 1..Len(payloads) :
            \A n \in 1..Len(rsettings.noListWords) :
                rsettings.noListWords[n] # <<>> =>
                    ~IsSubstring(rsettings.noListWords[n], payloads[k].title)

(***************************************************************************)
(* Termination of a run                                                    *)
(***************************************************************************)
\* the state a run leaves behind: not loading, and a result list
Settled == pc = "idle" /\ ~loading /\ ~listingResults.isNull

\* C25: every started run terminates once its calls have settled, and on
\* every path (no targets, no payloads, submission done, exception) it ends
\* with loading reset to false and a non-null result list set by the run, so
\* that a later run can be started.
C25_RunEndsSettled ==
    /\ [][ /\ (RunListingStart /\ pc' = "idle") => Settled'
           /\ (pc # "idle" /\ pc' = "idle") =>
                 (Settled' /\ listingResults' # listingResults)
           /\ pc' = "idle" => ~loading' ]_vars
    /\ (pc # "idle") ~> Settled

\* a run has ended in the catch block: the synthetic error is shown and
\* loading is off
W_C25_EndedInCatch ==
    /\ pc = "idle"
    /\ caught
    /\ ~loading
    /\ listingResults = Results(<<SyntheticError>>)
    /\ targets # <<>>

====
